---- MODULE Spec2Model ----
(***************************************************************************)
(* A model of medifs: the virtual directory cache (data/cache.rs), the     *)
(* file system source that fills it (sources/file_system/mod.rs) and the   *)
(* FUSE callbacks that read it (files/mod.rs, files/macros.rs).            *)
(*                                                                         *)
(* A path is the sequence of its components.  The component "/" is the     *)
(* root directory, "." the current directory, ".." the parent directory;   *)
(* every other string is a normal component.                               *)
(***************************************************************************)
EXTENDS Integers, Sequences, FiniteSets, TLC

VARIABLES
    cache,      \* data::Cache: [root, timestamp_root, tagged_root]
    call,       \* the last call made on the Cache API, with its result
    added,      \* the successful adds since the root was last cleared
    cacheLock,  \* the RwLock around the cache
    sourceLock, \* the RwLock around the source
    last_seen,  \* the source's timestamp of the last refresh
    disk,       \* the files under the source root
    rootMtime,  \* the modification time of the source root
    rootReadable, \* whether the metadata of the source root can be read
    fds,        \* the open file descriptors of the process
    handles,    \* the handles the kernel holds: issued by open, not released
    thread,     \* the worker threads, each inside at most one callback
    complete,   \* the tree as the last populate that ended left it
    notifies,   \* the two last calls of notify
    collection, \* data::ItemCollection: [items]
    monitor,    \* the monitor of the collection: the calls it has received
    tagsSource, \* TagsSource: [tags], the metadata already read, by path
    exif        \* the metadata the files under the source root hold

apiVars == <<call, added>>
unitVars == <<collection, monitor, tagsSource, exif>>
systemVars == <<cacheLock, sourceLock, last_seen, disk, rootMtime, rootReadable,
                fds, handles, thread, complete, notifies>>
vars == <<cache, call, added, cacheLock, sourceLock, last_seen, disk, rootMtime,
          rootReadable, fds, handles, thread, complete, notifies, collection,
          monitor, tagsSource, exif>>

-----------------------------------------------------------------------------
(* Bounds of the model.                                                    *)

\* The number of items added to the cache between two clears.
MaxAdds == 3

\* The modification time of the source root advances up to this.
MaxMtime == 2

\* The number of handles the kernel holds at a time.
MaxHandles == 1

\* The length of the strings parsed as tags.
MaxLen == 5

-----------------------------------------------------------------------------
(* Options and paths.                                                      *)

None == [kind |-> "None"]

\* A value computed and bound to a name once, for the expression that uses
\* it.
With(value, In(_)) == CHOOSE y \in {In(r) : r \in {value}} : TRUE

RootDir == "/"
CurDir == "."
ParentDir == ".."

\* path::Path::components: a "." that is not the first component is dropped.
NotCurDir(part) == part # CurDir

components(path) ==
    IF path = <<>> THEN <<>>
    ELSE <<Head(path)>> \o SelectSeq(Tail(path), NotCurDir)

\* path::PathBuf::push: an absolute path replaces the buffer.
push(buf, path) ==
    IF path # <<>> /\ path[1] = RootDir THEN path ELSE buf \o path

-----------------------------------------------------------------------------
(* Timestamps (data/time.rs).                                              *)

Tm(y, m, d, h, mi, s) ==
    [year |-> y, month |-> m, day |-> d, hour |-> h, min |-> mi, sec |-> s]

year(ts) == ts.year
month(ts) == ts.month
day(ts) == ts.day

\* Days since 1970-01-01 of a civil date.
days_from_civil(y, m, d) ==
    LET yy == IF m <= 2 THEN y - 1 ELSE y
        era == yy \div 400
        yoe == yy - era * 400
        mp == (m + 9) % 12
        doy == (153 * mp + 2) \div 5 + d - 1
        doe == yoe * 365 + yoe \div 4 - yoe \div 100 + doy
    IN era * 146097 + doe - 719468

\* time::Tm::to_timespec: seconds since the epoch, negative before it.
to_timespec(ts) ==
    ((days_from_civil(ts.year, ts.month, ts.day) * 24 + ts.hour) * 60
        + ts.min) * 60 + ts.sec

\* format!("{:02}", n)
pad2(n) == IF n >= 0 /\ n < 10 THEN "0" \o ToString(n) ELSE ToString(n)

\* Display for Timestamp: strftime("%Y-%m-%d %H:%M"); seconds are not shown.
format_timestamp(ts) ==
    ToString(ts.year) \o "-" \o pad2(ts.month) \o "-" \o pad2(ts.day)
        \o " " \o pad2(ts.hour) \o ":" \o pad2(ts.min)

-----------------------------------------------------------------------------
(* Tags (data/tag.rs): an optional parent and a leaf.  The parent is kept  *)
(* as the components of its path.                                          *)

NoParent == [some |-> FALSE, path |-> <<>>]
Parent(path) == [some |-> TRUE, path |-> path]

Tag(parent, leaf) == [parent |-> parent, leaf |-> leaf]

-----------------------------------------------------------------------------
(* Items (data/item.rs).                                                   *)

\* mime_guess::guess_mime_type on the source paths of the model.
guess_mime_type(path) ==
    CASE path \in {"a.jpg", "b.jpg", "c.jpg"} -> "image/jpeg"
      [] path \in {"d.png"} -> "image/png"
      [] path \in {"e.gif"} -> "image/gif"
      [] path \in {"notes.txt"} -> "text/plain"
      [] OTHER -> "application/octet-stream"

\* Item::new
Item(path, timestamp, tags) ==
    [path |-> path, timestamp |-> timestamp, tags |-> tags,
     media_type |-> guess_mime_type(path)]

\* PartialEq for Item: by source path alone.
item_eq(a, b) == a.path = b.path

\* FileExtension for mime::Mime
mime_file_extension(media_type) ==
    CASE media_type = "image/jpeg" -> "jpeg"
      [] media_type = "image/png" -> "png"
      [] media_type = "image/gif" -> "gif"
      [] OTHER -> "bin"

\* name without the index.
name_plain(base, ext, index) == base \o "." \o ext

\* name with the index tested against one instead of zero.
name_late_index(base, ext, index) ==
    IF index > 1
    THEN base \o " (" \o ToString(index) \o ")." \o ext
    ELSE base \o "." \o ext

\* name(base, ext, index), on the rendered base and extension.
name(base, ext, index) ==
    IF index > 0
    THEN base \o " (" \o ToString(index) \o ")." \o ext
    ELSE base \o "." \o ext

-----------------------------------------------------------------------------
(* The inputs of the model.                                                *)

T2000a == Tm(2000, 1, 1, 0, 0, 0)
T2000b == Tm(2000, 1, 1, 0, 0, 30)     \* the same minute as T2000a
T2000c == Tm(2000, 1, 2, 0, 0, 0)      \* the next day
T1960 == Tm(1960, 7, 4, 12, 30, 0)     \* before the epoch

Timestamps == {T2000a, T2000b, T2000c, T1960}

TagX == Tag(NoParent, "x")                     \* "x"
TagXY == Tag(Parent(<<"x">>), "y")             \* "x/y"
TagDotX == Tag(Parent(<<".">>), "x")           \* "./x": the directory of "x"
TagUp == Tag(Parent(<<"x", "..">>), "z")       \* "x/../z": a parent component
\* "x/2000-01-01 00:00.jpeg/y": through the name of a link of the tag "x"
TagInLink == Tag(Parent(<<"x", "2000-01-01 00:00.jpeg">>), "y")

\* The arguments of Cache::new: those of main, those of the tests, and a
\* timestamp root with a parent component, under which add is rejected.
Configs ==
    { [timestamp_root |-> <<"All">>, tagged_root |-> <<"Tagged">>],
      [timestamp_root |-> <<"/", "base">>, tagged_root |-> <<"tagged">>],
      [timestamp_root |-> <<"All", "..", "Old">>, tagged_root |-> <<"Tagged">>] }

ItemA == Item("a.jpg", T2000a, {})
ItemB == Item("b.jpg", T2000a, {TagX})
ItemC == Item("c.jpg", T2000a, {TagX, TagDotX})
ItemC2 == Item("c.jpg", T2000b, {TagXY})
ItemD == Item("d.png", T2000c, {TagX, TagInLink})
ItemE == Item("e.gif", T1960, {TagUp})

Items == {ItemA, ItemB, ItemC, ItemC2, ItemD, ItemE}

\* The sequences of items handed to add_iter and replace_all.
Batches ==
    { <<>>, <<ItemA>>, <<ItemE>>, <<ItemA, ItemB>>, <<ItemB, ItemA>>,
      <<ItemD, ItemC2>>, <<ItemC, ItemB, ItemA>>, <<ItemE, ItemD, ItemC>> }

-----------------------------------------------------------------------------
(* Cache entries (data/cache.rs).                                          *)

\* The roots main gives the cache, and roots with which every add fails.
Mounts ==
    { [timestamp_root |-> <<"All">>, tagged_root |-> <<"Tagged">>],
      [timestamp_root |-> <<"All", "..", "Old">>, tagged_root |-> <<"Tagged">>] }

EmptyTree == <<>>

Directory(tree) == [kind |-> "Directory", tree |-> tree]
ItemEntry(item) == [kind |-> "Item", item |-> item]
Link(ts, target) == [kind |-> "Link", timestamp |-> ts, target |-> target]

Max(S) == CHOOSE x \in S : \A y \in S : y <= x

\* Entry::timestamp with the links left out.
RECURSIVE timestamp_without_links(_)
timestamp_without_links(entry) ==
    CASE entry.kind = "Directory" ->
            IF DOMAIN entry.tree = {} THEN 0
            ELSE Max({timestamp_without_links(entry.tree[n]) :
                         n \in DOMAIN entry.tree})
      [] entry.kind = "Item" -> to_timespec(entry.item.timestamp)
      [] entry.kind = "Link" -> 0

\* Entry::timestamp
RECURSIVE timestamp(_)
timestamp(entry) ==
    CASE entry.kind = "Directory" ->
            IF DOMAIN entry.tree = {} THEN 0
            ELSE Max({timestamp(entry.tree[n]) : n \in DOMAIN entry.tree})
      [] entry.kind = "Item" -> to_timespec(entry.item.timestamp)
      [] entry.kind = "Link" -> entry.timestamp

\* The stems and extensions of the names the cache gives to items.
Extensions == {"jpeg", "png", "gif", "bin"}
Stems ==
    {format_timestamp(ts) : ts \in Timestamps} \cup
    {format_timestamp(ts) \o " (" \o ToString(i) \o ")" :
        ts \in Timestamps, i \in 1..MaxAdds}

\* FileBase for OsString: the file stem of the path, the text of its last
\* component before the last '.'.
os_file_base(path) ==
    LET file == path[Len(path)]
        split == {se \in Stems \X Extensions : se[1] \o "." \o se[2] = file}
    IN IF split # {} THEN (CHOOSE se \in split : TRUE)[1] ELSE file

\* FileExtension for OsString: the text after the last '.', or "bin".
os_file_extension(path) ==
    LET file == path[Len(path)]
        split == {se \in Stems \X Extensions : se[1] \o "." \o se[2] = file}
    IN IF split # {} THEN (CHOOSE se \in split : TRUE)[2] ELSE "bin"

\* Entry::name; it panics on a directory, which has no name here either.
entry_name(entry, index) ==
    CASE entry.kind = "Item" ->
            name(format_timestamp(entry.item.timestamp),
                 mime_file_extension(entry.item.media_type), index)
      [] entry.kind = "Link" ->
            name(os_file_base(entry.target), os_file_extension(entry.target),
                 index)

\* Entry::clear leaving the children in place.
clear_nothing(entry) == entry

\* Entry::clear
clear(entry) ==
    IF entry.kind = "Directory" THEN Directory(EmptyTree) ELSE entry

\* Cache::new
new(timestamp_root, tagged_root) ==
    [root |-> Directory(EmptyTree),
     timestamp_root |-> timestamp_root,
     tagged_root |-> tagged_root]

\* lookup that steps over a parent component as it does over the root.
RECURSIVE lookup_from_over_parent(_, _)
lookup_from_over_parent(acc, parts) ==
    IF parts = <<>> THEN acc
    ELSE LET part == Head(parts)
             next == CASE part \in {RootDir, CurDir, ParentDir} -> acc
                       [] OTHER ->
                            IF acc.kind = "Directory" /\ part \in DOMAIN acc.tree
                            THEN acc.tree[part]
                            ELSE None
         IN lookup_from_over_parent(next, Tail(parts))

\* Cache::lookup: the fold over the components, from the root.
RECURSIVE lookup_from(_, _)
lookup_from(acc, parts) ==
    IF parts = <<>> THEN acc
    ELSE LET part == Head(parts)
             next == CASE part \in {RootDir, CurDir} -> acc
                       [] part = ParentDir -> None
                       [] OTHER ->
                            IF acc.kind = "Directory" /\ part \in DOMAIN acc.tree
                            THEN acc.tree[part]
                            ELSE None
         IN lookup_from(next, Tail(parts))

lookup(c, path) == lookup_from(c.root, components(path))

\* Cache::assert_exists: the fold over the components, creating the missing
\* directories.  "entry" is the entry the fold started from as the fold
\* leaves it, "found" the entry the fold ends on (None when it fails).
RECURSIVE assert_exists_from(_, _)
assert_exists_from(entry, parts) ==
    IF parts = <<>> THEN [entry |-> entry, found |-> entry]
    ELSE LET part == Head(parts)
         IN CASE part \in {RootDir, CurDir} ->
                    assert_exists_from(entry, Tail(parts))
              [] part = ParentDir -> [entry |-> entry, found |-> None]
              [] OTHER ->
                    IF entry.kind = "Directory"
                    THEN LET child == IF part \in DOMAIN entry.tree
                                      THEN entry.tree[part]
                                      ELSE Directory(EmptyTree)
                             below == assert_exists_from(child, Tail(parts))
                         IN [entry |-> Directory((part :> below.entry) @@ entry.tree),
                             found |-> below.found]
                    ELSE [entry |-> entry, found |-> None]

assert_exists(c, path) ==
    With(assert_exists_from(c.root, components(path)),
         LAMBDA r : [cache |-> [c EXCEPT !.root = r.entry], found |-> r.found])

\* The write through the mutable reference assert_exists returns: the tree
\* of the directory at "parts" becomes "tree".
RECURSIVE store_tree(_, _, _)
store_tree(entry, parts, tree) ==
    IF parts = <<>> THEN Directory(tree)
    ELSE LET part == Head(parts)
         IN IF part \in {RootDir, CurDir}
            THEN store_tree(entry, Tail(parts), tree)
            ELSE Directory((part :> store_tree(entry.tree[part], Tail(parts), tree))
                               @@ entry.tree)

\* Cache::add_with_index: the first index whose name is free in the tree.
RECURSIVE free_index(_, _, _)
free_index(tree, entry, index) ==
    IF entry_name(entry, index) \notin DOMAIN tree THEN index
    ELSE free_index(tree, entry, index + 1)

\* add_with_index inserting under the first name whether it is free or not.
add_with_index_overwrite(directory, tree, entry) ==
    With(entry_name(entry, 0),
         LAMBDA n : [tree |-> (n :> entry) @@ tree, path |-> directory \o <<n>>])

\* add_with_index returning the path of the first name it tried.
add_with_index_first_name(directory, tree, entry) ==
    With(entry_name(entry, free_index(tree, entry, 0)),
         LAMBDA n : [tree |-> (n :> entry) @@ tree,
                     path |-> directory \o <<entry_name(entry, 0)>>])

add_with_index(directory, tree, entry) ==
    With(entry_name(entry, free_index(tree, entry, 0)),
         LAMBDA n : [tree |-> (n :> entry) @@ tree, path |-> directory \o <<n>>])

Ok(path) == [ok |-> TRUE, path |-> path]
Err(item) == [ok |-> FALSE, item |-> item]

\* Cache::add_item
add_item(c, directory, item) ==
    With(assert_exists(c, directory), LAMBDA ae :
      IF ae.found.kind = "Directory"
      THEN With(add_with_index(directory, ae.found.tree, ItemEntry(item)),
                LAMBDA r :
                  [cache |-> [c EXCEPT !.root =
                                store_tree(ae.cache.root, components(directory),
                                           r.tree)],
                   result |-> Ok(r.path)])
      ELSE [cache |-> ae.cache, result |-> Err(item)])

\* The target of a link: a ".." for each component of the directory, then
\* the path pushed.
RECURSIVE parents(_)
parents(n) == IF n = 0 THEN <<>> ELSE push(parents(n - 1), <<ParentDir>>)

\* a target made of the path alone.
relative_target_flat(directory, path) == path

relative_target(directory, path) ==
    push(parents(Len(components(directory))), path)

\* Cache::add_link
add_link(c, directory, path, item) ==
    With(assert_exists(c, directory), LAMBDA ae :
      IF ae.found.kind = "Directory"
      THEN With(add_with_index(directory, ae.found.tree,
                               Link(to_timespec(item.timestamp),
                                    relative_target(directory, path))),
                LAMBDA r :
                  [c EXCEPT !.root =
                     store_tree(ae.cache.root, components(directory), r.tree)])
      ELSE ae.cache)

\* the directory of a tag without the parent of the tag.
tag_directory_of_leaf(c, tag) == push(push(<<>>, c.tagged_root), <<tag.leaf>>)

\* The directory of a tag: the tag root, the parent, the leaf.
tag_directory(c, tag) ==
    LET base == push(<<>>, c.tagged_root)
        withParent == IF tag.parent.some THEN push(base, tag.parent.path) ELSE base
    IN push(withParent, <<tag.leaf>>)

\* the directory of an item with month and day as plain numbers.
timestamp_directory_unpadded(c, item) ==
    push(push(push(push(<<>>, c.timestamp_root),
                   <<ToString(year(item.timestamp))>>),
              <<ToString(month(item.timestamp))>>),
         <<ToString(day(item.timestamp))>>)

\* The directory of an item in the timestamp tree.
timestamp_directory(c, item) ==
    push(push(push(push(<<>>, c.timestamp_root),
                   <<ToString(year(item.timestamp))>>),
              <<pad2(month(item.timestamp))>>),
         <<pad2(day(item.timestamp))>>)

\* The tags of an item in the order the loop of add visits them.
RECURSIVE SetToSeq(_)
SetToSeq(S) ==
    IF S = {} THEN <<>>
    ELSE LET x == CHOOSE y \in S : TRUE IN <<x>> \o SetToSeq(S \ {x})

RECURSIVE add_links(_, _, _, _)
add_links(c, tags, path, item) ==
    IF tags = <<>> THEN c
    ELSE add_links(add_link(c, tag_directory(c, Head(tags)), path, item),
                   Tail(tags), path, item)

\* add failing when the directory of one of the tags cannot be made.
add_strict(c, item) ==
    With(add_item(c, timestamp_directory(c, item), item), LAMBDA r :
      IF r.result.ok
      THEN IF \E tag \in item.tags :
                 assert_exists(r.cache, tag_directory(c, tag)).found.kind
                     # "Directory"
           THEN [cache |-> r.cache, result |-> Err(item)]
           ELSE [cache |-> add_links(r.cache, SetToSeq(item.tags),
                                     r.result.path, item),
                 result |-> r.result]
      ELSE r)

\* Cache::add
add(c, item) ==
    With(add_item(c, timestamp_directory(c, item), item), LAMBDA r :
      IF r.result.ok
      THEN [cache |-> add_links(r.cache, SetToSeq(item.tags), r.result.path, item),
            result |-> r.result]
      ELSE r)

\* add_iter going on after a rejected item, returning the last result.
RECURSIVE add_iter_to_the_end(_, _)
add_iter_to_the_end(c, items) ==
    IF items = <<>> THEN [cache |-> c, result |-> [ok |-> TRUE]]
    ELSE With(add(c, Head(items)), LAMBDA r :
           IF r.result.ok \/ Tail(items) # <<>>
           THEN add_iter_to_the_end(r.cache, Tail(items))
           ELSE [cache |-> r.cache, result |-> Err(Head(items))])

\* Cache::add_iter: the fold stops adding at the first rejected item.
RECURSIVE add_iter(_, _)
add_iter(c, items) ==
    IF items = <<>> THEN [cache |-> c, result |-> [ok |-> TRUE]]
    ELSE With(add(c, Head(items)), LAMBDA r :
           IF r.result.ok THEN add_iter(r.cache, Tail(items))
           ELSE [cache |-> r.cache, result |-> Err(Head(items))])

\* Cache::replace_all
replace_all(c, items) ==
    add_iter([c EXCEPT !.root = clear(c.root)], items)

-----------------------------------------------------------------------------
(* Tags as text (data/tag.rs): a string is the sequence of its characters. *)

Chars == {"a", "b", "/"}

Strings(n) == UNION {[1..k -> Chars] : k \in 0..n}

SEPARATOR == "/"

NoText == [some |-> FALSE, text |-> <<>>]
SomeText(text) == [some |-> TRUE, text |-> text]

\* The position of the first separator, 0 when there is none.
find(text) ==
    IF \E i \in 1..Len(text) : text[i] = SEPARATOR
    THEN CHOOSE i \in 1..Len(text) :
            /\ text[i] = SEPARATOR
            /\ \A j \in 1..(i - 1) : text[j] # SEPARATOR
    ELSE 0

\* name.rfind(SEPARATOR): the position of the last separator, 0 for None.
rfind(text) ==
    IF \E i \in 1..Len(text) : text[i] = SEPARATOR
    THEN Max({i \in 1..Len(text) : text[i] = SEPARATOR})
    ELSE 0

\* Tag::split
split(text) ==
    With(rfind(text), LAMBDA index :
      IF index > 0
      THEN [parent |-> SomeText(SubSeq(text, 1, index - 1)),
            leaf |-> SubSeq(text, index + 1, Len(text))]
      ELSE [parent |-> NoText, leaf |-> text])

\* Tag::new
tag_new(text) == split(text)

\* Tag::is_flat
is_flat(text) == \A i \in 1..Len(text) : text[i] # SEPARATOR

\* Display for Tag
to_string(tag) ==
    IF tag.parent.some
    THEN tag.parent.text \o <<SEPARATOR>> \o tag.leaf
    ELSE tag.leaf

NoTag == [ok |-> FALSE, tag |-> [parent |-> NoText, leaf |-> <<>>]]
SomeTag(tag) == [ok |-> TRUE, tag |-> tag]

\* Tag::root
tag_root(text) ==
    IF is_flat(text) THEN SomeTag([parent |-> NoText, leaf |-> text]) ELSE NoTag

\* Tag::leaf
tag_leaf(parent, text) ==
    IF is_flat(text)
    THEN SomeTag([parent |-> SomeText(to_string(parent)), leaf |-> text])
    ELSE NoTag

\* from_str without the test of the ends of the string.
from_str_unchecked(text) == SomeTag(tag_new(text))

\* FromStr for Tag
from_str(text) ==
    IF Len(text) = 0 \/ text[1] = SEPARATOR \/ text[Len(text)] = SEPARATOR
    THEN NoTag
    ELSE SomeTag(tag_new(text))

-----------------------------------------------------------------------------
(* The Cache API called directly, one call per step.                       *)

\* The items add_iter adds before it stops, each with the path add returns.
RECURSIVE returned(_, _)
returned(c, items) ==
    IF items = <<>> THEN <<>>
    ELSE With(add(c, Head(items)), LAMBDA r :
           IF r.result.ok
           THEN <<[item |-> Head(items), path |-> r.result.path]>>
                    \o returned(r.cache, Tail(items))
           ELSE <<>>)

\* Paths looked up before a replace_all, to be compared with the lookups
\* after it.
Probes(c) ==
    { push(c.timestamp_root, <<"2000", "01", "01", "2000-01-01 00:00.jpeg">>),
      push(c.timestamp_root, <<"2000", "01", "01", "2000-01-01 00:00 (1).jpeg">>),
      push(c.timestamp_root, <<"2000", "01", "02">>),
      push(c.timestamp_root, <<"1960", "07", "04", "1960-07-04 12:30.gif">>),
      push(c.tagged_root, <<"x", "2000-01-01 00:00.jpeg">>),
      push(c.tagged_root, <<"x", "y">>) }

resolves(c, path) == lookup(c, path).kind # "None"

-----------------------------------------------------------------------------
(* The mounted file system: the source, the two locks, the worker threads  *)
(* that run the callbacks, and the source directory they read.             *)

\* The worker threads of the FUSE session; 0 names no thread.
Workers == {1, 2}

\* The files that may exist under the source root, and their bytes.
Files == {"a.jpg", "b.jpg", "notes.txt"}

Content(path) ==
    CASE path = "a.jpg" -> <<10, 11, 12>>
      [] path = "b.jpg" -> <<20, 21, 22>>
      [] OTHER -> <<30>>

\* FileSystemItemGenerator::item: the item generated for a file.
generator_item(path) ==
    CASE path = "a.jpg" -> ItemA
      [] path = "b.jpg" -> ItemB
      [] OTHER -> Item(path, T2000a, {})

\* a walk that keeps the files of every media type.
is_image_or_not(path) == TRUE

\* guess_mime_type(path).type_() == "image"
is_image(path) ==
    guess_mime_type(path) \in {"image/jpeg", "image/png", "image/gif"}

\* The orders in which a walk may yield the files of a set.
RECURSIVE walks(_)
walks(S) ==
    IF S = {} THEN {<<>>}
    ELSE UNION {{<<f>> \o w : w \in walks(S \ {f})} : f \in S}

\* The paths the kernel asks for.
RequestPaths ==
    { <<"/">>,
      <<"/", "All", "2000", "01", "01", "2000-01-01 00:00.jpeg">> }

Offsets == {0, 1}
Sizes == {2}

\* Option<SystemTime>
NoTime == [some |-> FALSE, t |-> 0]
SomeTime(t) == [some |-> TRUE, t |-> t]

\* a failed read of the modification time taken as the epoch.
metadata_modified_or_epoch(readable, mtime) ==
    [ok |-> TRUE, t |-> IF readable THEN mtime ELSE 0]

\* notify: self.root().metadata().and_then(|meta| meta.modified())
metadata_modified(readable, mtime) ==
    IF readable THEN [ok |-> TRUE, t |-> mtime] ELSE [ok |-> FALSE, t |-> 0]

\* notify that scans only while no time is stored.
stale_when_unseen(seen, modified_time) == ~seen.some

\* notify that scans whatever time is stored.
stale_always(seen, modified_time) == TRUE

\* notify with the comparison letting an equal time through.
stale_or_equal(seen, modified) == IF seen.some THEN seen.t <= modified ELSE TRUE

\* notify: self.timestamp().map(|t| t < timestamp).unwrap_or(true)
stale(seen, modified) == IF seen.some THEN seen.t < modified ELSE TRUE

\* RwLock: at most one writer, or readers; poisoned by a writer that panics.
FreeLock == [writer |-> 0, readers |-> {}, poisoned |-> FALSE]

\* a lock that reports no poisoning.
lock_result_unpoisoned(lock) == "Ok"

\* The LockResult of read() and write(), as the macros and populate match it.
lock_result(lock) == IF lock.poisoned THEN "Err" ELSE "Ok"

\* read() granted while a writer holds the lock.
can_read_beside_writer(lock) == TRUE

\* read() returns once no writer holds the lock.
can_read(lock) == lock.writer = 0

\* write() returns once nobody holds the lock.
can_write(lock) == lock.writer = 0 /\ lock.readers = {}

\* a write guard that keeps the lock when it is dropped.
unlock_never(lock) == lock

\* The write guard dropped when its scope ends.
unlock(lock) == [lock EXCEPT !.writer = 0]

\* a panic that leaves the lock as a return does.
unwind_unpoisoned(lock) == [lock EXCEPT !.writer = 0]

\* The write guard dropped by the unwinding of a panic.
unwind(lock) == [lock EXCEPT !.writer = 0, !.poisoned = TRUE]

\* read with the File dropped at the end, which closes the descriptor.
read_drop(table, fh) == [fd \in DOMAIN table \ {fh} |-> table[fd]]

\* read: file.into_raw_fd() gives the descriptor back without closing it.
into_raw_fd(table, fh) == table

\* release: the File made from the descriptor is dropped, which closes it.
drop_file(table, fh) == [fd \in DOMAIN table \ {fh} |-> table[fd]]

\* File::open followed by into_raw_fd: the lowest free descriptor.
free_fd(table) == CHOOSE fd \in 3..(3 + Cardinality(DOMAIN table)) :
                     /\ fd \notin DOMAIN table
                     /\ \A g \in 3..(fd - 1) : g \in DOMAIN table

\* The bytes a read of at most size returns from a position of a file.
bytes(path, pos, size) ==
    LET data == Content(path)
        last == IF pos + size < Len(data) THEN pos + size ELSE Len(data)
    IN IF pos >= Len(data) THEN <<>> ELSE SubSeq(data, pos + 1, last)

\* RequestInfo: the user and group of the process that asks.
UserRequest == [uid |-> 1000, gid |-> 100]
RootRequest == [uid |-> 0, gid |-> 0]
Requests == {UserRequest, RootRequest}

\* fuse_mt::FileAttr, with the four times set to one timestamp.
FileAttr(kind, perm, size, ts) ==
    [kind |-> kind, perm |-> perm, size |-> size, atime |-> ts, mtime |-> ts,
     ctime |-> ts, crtime |-> ts, nlink |-> 1, uid |-> 0, gid |-> 0]

NoAttr == FileAttr("none", 0, 0, 0)

\* for_user that leaves the owner alone.
for_user_unchanged(attr, uid, gid) == attr

\* ForUser for FileAttr
for_user(attr, uid, gid) == [attr EXCEPT !.uid = uid, !.gid = gid]

OkReply == [status |-> "ok", errno |-> ""]
ErrReply(errno) == [status |-> "err", errno |-> errno]

\* From<&Entry> for ResultEntry: 0o555 is 365 and 0o444 is 292; the size of
\* an item is that of its source file, whose metadata may fail to be read.
result_entry(entry, files) ==
    CASE entry.kind = "Directory" ->
            [reply |-> OkReply,
             attr |-> FileAttr("Directory", 365, 0, timestamp(entry))]
      [] entry.kind = "Item" ->
            IF entry.item.path \in files
            THEN [reply |-> OkReply,
                  attr |-> FileAttr("RegularFile", 292,
                                    Len(Content(entry.item.path)),
                                    timestamp(entry))]
            ELSE [reply |-> ErrReply("ENOENT"), attr |-> NoAttr]
      [] entry.kind = "Link" ->
            [reply |-> OkReply,
             attr |-> FileAttr("Symlink", 365, 0, timestamp(entry))]

\* The FileType of a child in a directory listing.
file_type(entry) ==
    CASE entry.kind = "Directory" -> "Directory"
      [] entry.kind = "Item" -> "RegularFile"
      [] entry.kind = "Link" -> "Symlink"

\* a listing of the directories among the children only.
result_readdir_directories(entry) ==
    IF entry.kind = "Directory"
    THEN [reply |-> OkReply,
          entries |->
              With(SetToSeq({n \in DOMAIN entry.tree :
                               entry.tree[n].kind = "Directory"}),
                   LAMBDA names :
                     [i \in 1..Len(names) |->
                        [name |-> names[i],
                         kind |-> file_type(entry.tree[names[i]])]])]
    ELSE [reply |-> ErrReply("ENOTDIR"), entries |-> <<>>]

\* From<&Entry> for ResultReaddir: one DirectoryEntry for each child.
result_readdir(entry) ==
    IF entry.kind = "Directory"
    THEN [reply |-> OkReply,
          entries |->
              With(SetToSeq(DOMAIN entry.tree), LAMBDA names :
                     [i \in 1..Len(names) |->
                        [name |-> names[i],
                         kind |-> file_type(entry.tree[names[i]])]])]
    ELSE [reply |-> ErrReply("ENOTDIR"), entries |-> <<>>]

\* opendir that opens whatever the path resolves to.
result_opendir_any(entry) == OkReply

\* opendir: Ok((0, 0)) for a directory.
result_opendir(entry) ==
    IF entry.kind = "Directory" THEN OkReply ELSE ErrReply("ENOTDIR")

\* readlink: the target of a link.
result_readlink(entry) ==
    IF entry.kind = "Link"
    THEN [reply |-> OkReply, target |-> entry.target]
    ELSE [reply |-> ErrReply("EINVAL"), target |-> <<>>]

\* open that reports a missing file for what is not an item.
result_open_missing(entry, files) ==
    IF entry.kind = "Item" /\ entry.item.path \in files
    THEN OkReply ELSE ErrReply("ENOENT")

\* open: File::open of the source file of an item, its error mapped.
result_open(entry, files) ==
    IF entry.kind = "Item"
    THEN IF entry.item.path \in files THEN OkReply ELSE ErrReply("ENOENT")
    ELSE ErrReply("EINVAL")

\* A thread outside every callback.
Idle ==
    [pc |-> "idle", op |-> "none", path |-> <<>>, fh |-> 0, offset |-> 0,
     size |-> 0, stamp |-> 0, pending |-> <<>>, status |-> "none",
     errno |-> "", kindv |-> "", data |-> <<>>,
     poisoned |-> FALSE, notified |-> FALSE, looked |-> FALSE,
     snapshot |-> TRUE, late |-> FALSE, due |-> 0, answered |-> 0,
     req |-> RootRequest, attr |-> NoAttr, entries |-> <<>>, target |-> <<>>]

NoNotify == [seen |-> FALSE, mtime |-> 0, readable |-> FALSE, scanned |-> FALSE]

Panicked == {t \in Workers : thread[t].pc = "panicked"}

\* The metadata of a file that holds none that can be read.
NoExif ==
    [readable |-> FALSE, dated |-> FALSE, taken |-> T2000a, keywords |-> {},
     modified |-> T2000a]

InitSystem ==
    /\ cacheLock = FreeLock
    /\ sourceLock = FreeLock
    /\ last_seen = NoTime
    /\ disk = {"a.jpg", "notes.txt"}
    /\ rootMtime = 1
    /\ rootReadable = TRUE
    /\ fds = <<>>
    /\ handles = {}
    /\ thread = [t \in Workers |-> Idle]
    /\ complete = Directory(EmptyTree)
    /\ notifies = <<NoNotify, NoNotify>>
    /\ collection = [items |-> <<>>]
    /\ monitor = [added |-> <<>>, removed |-> <<>>]
    /\ tagsSource = [tags |-> <<>>]
    /\ exif = [path \in {"a.jpg", "b.jpg"} |-> NoExif]

InitCache ==
    /\ \E cfg \in Configs : cache = new(cfg.timestamp_root, cfg.tagged_root)
    /\ call = [op |-> "new"]
    /\ added = <<>>
    /\ InitSystem

Add(item) ==
    /\ Len(added) < MaxAdds
    /\ \E r \in {add(cache, item)} :
          /\ cache' = r.cache
          /\ call' = [op |-> "add", item |-> item, result |-> r.result]
          /\ added' = IF r.result.ok
                      THEN Append(added, [item |-> item, path |-> r.result.path])
                      ELSE added
    /\ UNCHANGED <<systemVars, unitVars>>

AddIter(items) ==
    /\ Len(added) + Len(items) <= MaxAdds
    /\ \E r \in {add_iter(cache, items)} :
          /\ cache' = r.cache
          /\ call' = [op |-> "add_iter", items |-> items, result |-> r.result]
          /\ added' = added \o returned(cache, items)
    /\ UNCHANGED <<systemVars, unitVars>>

ReplaceAll(items) ==
    /\ Len(items) <= MaxAdds
    /\ \E r \in {replace_all(cache, items)} :
          /\ cache' = r.cache
          /\ call' = [op |-> "replace_all", items |-> items, result |-> r.result,
                      resolved |-> {p \in Probes(cache) : resolves(cache, p)}]
          /\ added' = returned([cache EXCEPT !.root = clear(cache.root)], items)
    /\ UNCHANGED <<systemVars, unitVars>>

NextCache ==
    \/ \E item \in Items : Add(item)
    \/ \E items \in Batches : AddIter(items)
    \/ \E items \in Batches : ReplaceAll(items)

SpecCache == InitCache /\ [][NextCache]_vars

-----------------------------------------------------------------------------
(* Errors (util.rs).                                                       *)

\* The kinds of io::Error: those map_error names, and three it does not.
ErrorKinds ==
    {"NotFound", "PermissionDenied", "ConnectionRefused", "ConnectionReset",
     "ConnectionAborted", "NotConnected", "AddrInUse", "AddrNotAvailable",
     "BrokenPipe", "AlreadyExists", "WouldBlock", "InvalidInput",
     "InvalidData", "TimedOut", "Interrupted", "WriteZero", "UnexpectedEof",
     "Other"}

\* map_error without its arms for invalid input and data.
map_error_short(kind) ==
    CASE kind = "NotFound" -> "ENOENT"
      [] kind = "PermissionDenied" -> "EACCES"
      [] kind = "TimedOut" -> "ETIMEDOUT"
      [] kind = "Interrupted" -> "EINTR"
      [] OTHER -> "EIO"

\* map_error: the errno of the kind of an I/O error.
map_error(kind) ==
    CASE kind = "NotFound" -> "ENOENT"
      [] kind = "PermissionDenied" -> "EACCES"
      [] kind = "ConnectionRefused" -> "ECONNREFUSED"
      [] kind = "ConnectionReset" -> "ECONNRESET"
      [] kind = "ConnectionAborted" -> "ECONNABORTED"
      [] kind = "NotConnected" -> "ENOTCONN"
      [] kind = "AddrInUse" -> "EADDRINUSE"
      [] kind = "AddrNotAvailable" -> "EADDRNOTAVAIL"
      [] kind = "BrokenPipe" -> "EPIPE"
      [] kind = "AlreadyExists" -> "EEXIST"
      [] kind = "WouldBlock" -> "EAGAIN"
      [] kind = "InvalidInput" -> "EINVAL"
      [] kind = "InvalidData" -> "EINVAL"
      [] kind = "TimedOut" -> "ETIMEDOUT"
      [] kind = "Interrupted" -> "EINTR"
      [] OTHER -> "EIO"

-----------------------------------------------------------------------------
(* The functions of data/tag.rs and data/path.rs, one call per step.       *)

\* The bases and extensions name is called with: those of the test of
\* path.rs and a timestamp as the cache renders it.
Bases == {"test1", "test2", "test3", "2000-01-01 00:00"}
NameExtensions == {"jpeg", "png"}

InitPure ==
    /\ cache = new(<<"All">>, <<"Tagged">>)
    /\ call = [op |-> "new"]
    /\ added = <<>>
    /\ InitSystem

FromStr(text) ==
    /\ call' = [op |-> "from_str", input |-> text, result |-> from_str(text)]
    /\ UNCHANGED <<cache, added, systemVars, unitVars>>

TagRoot(text) ==
    /\ call' = [op |-> "root", input |-> text, result |-> tag_root(text)]
    /\ UNCHANGED <<cache, added, systemVars, unitVars>>

TagLeaf(parent, text) ==
    /\ call' = [op |-> "leaf", parent |-> parent, input |-> text,
                result |-> tag_leaf(parent, text)]
    /\ UNCHANGED <<cache, added, systemVars, unitVars>>

Name(base, ext, index) ==
    /\ call' = [op |-> "name", base |-> base, ext |-> ext, index |-> index,
                result |-> name(base, ext, index)]
    /\ UNCHANGED <<cache, added, systemVars, unitVars>>

MapError(kind) ==
    /\ call' = [op |-> "map_error", kind |-> kind, result |-> map_error(kind)]
    /\ UNCHANGED <<cache, added, systemVars, unitVars>>

NextPure ==
    \/ \E kind \in ErrorKinds : MapError(kind)
    \/ \E text \in Strings(MaxLen) : FromStr(text)
    \/ \E text \in Strings(2) : TagRoot(text)
    \/ \E text \in Strings(2), up \in Strings(2) : TagLeaf(tag_new(up), text)
    \/ \E base \in Bases, ext \in NameExtensions, index \in 0..MaxAdds :
          Name(base, ext, index)

SpecPure == InitPure /\ [][NextPure]_vars

-----------------------------------------------------------------------------
(* The item collection and its monitor (data/item.rs).                     *)

\* Option<Item>
NoItem == [some |-> FALSE]
SomeItem(item) == [some |-> TRUE, item |-> item]

\* A call the monitor receives: the item, and the items the collection holds
\* when the call is made.
Monitored(item, seen) == [item |-> item, seen |-> seen]

\* ItemCollection::add: item_added, then push.
collection_add(coll, mon, item) ==
    [collection |-> [coll EXCEPT !.items = Append(@, item)],
     monitor |-> [mon EXCEPT !.added = Append(@, Monitored(item, coll.items))]]

\* The positions of the items with the source path "path".
positions(items, path) == {i \in 1..Len(items) : items[i].path = path}

\* Vec::remove
remove(items, index) ==
    SubSeq(items, 1, index - 1) \o SubSeq(items, index + 1, Len(items))

\* remove_by_path taking the last item with the path.
remove_last_by_path(coll, mon, path) ==
    IF positions(coll.items, path) = {}
    THEN [collection |-> coll, monitor |-> mon, result |-> NoItem]
    ELSE With(CHOOSE i \in positions(coll.items, path) :
                  \A j \in positions(coll.items, path) : j <= i,
              LAMBDA index :
                [collection |-> [coll EXCEPT !.items = remove(@, index)],
                 monitor |-> [mon EXCEPT !.removed =
                                Append(@, Monitored(coll.items[index],
                                                    remove(coll.items, index)))],
                 result |-> SomeItem(coll.items[index])])

\* ItemCollection::remove_by_path: the first item with the path is removed,
\* then item_removed is called with it.
remove_by_path(coll, mon, path) ==
    IF positions(coll.items, path) = {}
    THEN [collection |-> coll, monitor |-> mon, result |-> NoItem]
    ELSE With(CHOOSE i \in positions(coll.items, path) :
                  \A j \in positions(coll.items, path) : i <= j,
              LAMBDA index :
                [collection |-> [coll EXCEPT !.items = remove(@, index)],
                 monitor |-> [mon EXCEPT !.removed =
                                Append(@, Monitored(coll.items[index],
                                                    remove(coll.items, index)))],
                 result |-> SomeItem(coll.items[index])])

\* The items given to the collection: three of one minute with one
\* extension, a second one of the path c.jpg, and one of the next day.
CollectionItems == {ItemA, ItemB, ItemC, ItemC2, ItemD}

CollectionAdd(item) ==
    /\ Len(monitor.added) < MaxAdds
    /\ \E r \in {collection_add(collection, monitor, item)} :
          /\ collection' = r.collection
          /\ monitor' = r.monitor
    /\ call' = [op |-> "collection_add", item |-> item]
    /\ UNCHANGED <<cache, added, systemVars, tagsSource, exif>>

RemoveByPath(path) ==
    /\ \E r \in {remove_by_path(collection, monitor, path)} :
          /\ collection' = r.collection
          /\ monitor' = r.monitor
          /\ call' = [op |-> "remove_by_path", path |-> path,
                      result |-> r.result]
    /\ UNCHANGED <<cache, added, systemVars, tagsSource, exif>>

NextItems ==
    \/ \E item \in CollectionItems : CollectionAdd(item)
    \/ \E item \in CollectionItems : RemoveByPath(item.path)
    \/ RemoveByPath("missing.jpg")

SpecItems == InitPure /\ [][NextItems]_vars

-----------------------------------------------------------------------------
(* The locators (locator/mod.rs, locator/timestamps.rs,                    *)
(* locator/dispatch.rs).  A path is the sequence of its components.        *)

\* locator::Entry
LocDirectory(ts, tree) == [kind |-> "Directory", timestamp |-> ts, tree |-> tree]
LocItem(item) == [kind |-> "Item", item |-> item]

\* Option<Entry>, Option<Location>, Option<i32>, Result<_, _>
Some(value) == [some |-> TRUE, value |-> value]
Absent == [some |-> FALSE]
Parsed(value) == [ok |-> TRUE, value |-> value]
Unparsed == [ok |-> FALSE]

Digits == {"0", "1", "2", "3", "4", "5", "6", "7", "8", "9"}

\* The characters of a string from one position to another, as many of
\* them as the string has.
slice(text, from, to) ==
    IF from < 1 \/ from > Len(text) \/ to < from THEN ""
    ELSE SubSeq(text, from, IF to > Len(text) THEN Len(text) ELSE to)

char_at(text, i) == slice(text, i, i)

digit_value(c) ==
    CASE c = "0" -> 0 [] c = "1" -> 1 [] c = "2" -> 2 [] c = "3" -> 3
      [] c = "4" -> 4 [] c = "5" -> 5 [] c = "6" -> 6 [] c = "7" -> 7
      [] c = "8" -> 8 [] c = "9" -> 9

is_digits(text) ==
    Len(text) > 0 /\ \A i \in 1..Len(text) : char_at(text, i) \in Digits

RECURSIVE digits_value(_)
digits_value(text) ==
    IF Len(text) = 0 THEN 0
    ELSE digits_value(slice(text, 1, Len(text) - 1)) * 10
            + digit_value(char_at(text, Len(text)))

\* str::parse::<i32>: digits after an optional sign.
parse_i32(text) ==
    IF is_digits(text) THEN Parsed(digits_value(text))
    ELSE IF Len(text) > 1 /\ char_at(text, 1) \in {"+", "-"}
              /\ is_digits(slice(text, 2, Len(text)))
         THEN Parsed(IF char_at(text, 1) = "-"
                     THEN 0 - digits_value(slice(text, 2, Len(text)))
                     ELSE digits_value(slice(text, 2, Len(text))))
         ELSE Unparsed

\* The month and day of try_from: two characters that parse.
parse_two(text) == IF Len(text) = 2 THEN parse_i32(text) ELSE Unparsed

\* The end of the run of digits that starts at "from" (from - 1 when there
\* is none).
RECURSIVE digits_end(_, _)
digits_end(text, from) ==
    IF from <= Len(text) /\ char_at(text, from) \in Digits
    THEN digits_end(text, from + 1)
    ELSE from - 1

two_digits(text, at) ==
    at + 1 <= Len(text) /\ is_digits(slice(text, at, at + 1))

ItemLocator(ts, idx, extension) ==
    [timestamp |-> ts, index |-> idx, extension |-> extension]

\* The tail of ITEM_LOCATOR_RE from the character after the seconds: the
\* index in parentheses when there is one, the dot, the extension.
locator_tail(text, at) ==
    IF slice(text, at, at + 1) = " ("
          /\ digits_end(text, at + 2) >= at + 2
          /\ slice(text, digits_end(text, at + 2) + 1,
                    digits_end(text, at + 2) + 2) = ")."
    THEN Parsed([index |-> digits_value(slice(text, at + 2,
                                               digits_end(text, at + 2))),
                 extension |-> slice(text, digits_end(text, at + 2) + 3,
                                      Len(text))])
    ELSE IF char_at(text, at) = "."
         THEN Parsed([index |-> 0, extension |-> slice(text, at + 1, Len(text))])
         ELSE Unparsed

\* ITEM_LOCATOR_RE matched with the year starting at "from":
\* year-MM-DD HH:MM:SS, then the tail.
match_at(text, from) ==
    With(digits_end(text, from) + 1, LAMBDA p :
      IF /\ p > from
         /\ char_at(text, p) = "-" /\ two_digits(text, p + 1)
         /\ char_at(text, p + 3) = "-" /\ two_digits(text, p + 4)
         /\ char_at(text, p + 6) = " " /\ two_digits(text, p + 7)
         /\ char_at(text, p + 9) = ":" /\ two_digits(text, p + 10)
         /\ char_at(text, p + 12) = ":" /\ two_digits(text, p + 13)
         /\ locator_tail(text, p + 15).ok
      THEN Parsed(ItemLocator(
               Tm(digits_value(slice(text, from, p - 1)),
                  digits_value(slice(text, p + 1, p + 2)),
                  digits_value(slice(text, p + 4, p + 5)),
                  digits_value(slice(text, p + 7, p + 8)),
                  digits_value(slice(text, p + 10, p + 11)),
                  digits_value(slice(text, p + 13, p + 14))),
               locator_tail(text, p + 15).value.index,
               locator_tail(text, p + 15).value.extension))
      ELSE Unparsed)

\* FromStr for ItemLocator: the leftmost match of ITEM_LOCATOR_RE in the
\* string.
item_locator_from_str(text) ==
    With({from \in 1..Len(text) : match_at(text, from).ok}, LAMBDA starts :
      IF starts = {} THEN Unparsed
      ELSE match_at(text, CHOOSE from \in starts :
                              \A other \in starts : from <= other))

\* Location
Root == [kind |-> "Root"]
Year(y) == [kind |-> "Year", year |-> y]
Month(y, m) == [kind |-> "Month", year |-> y, month |-> m]
Day(y, m, d) == [kind |-> "Day", year |-> y, month |-> m, day |-> d]
ItemLocation(loc) == [kind |-> "Item", item |-> loc]

\* Location::new with the item taken whatever its day.
location_new_unchecked(y, m, d, loc) ==
    CASE ~y.some /\ ~m.some /\ ~d.some /\ ~loc.some -> Some(Root)
      [] y.some /\ ~m.some /\ ~d.some /\ ~loc.some -> Some(Year(y.value))
      [] y.some /\ m.some /\ ~d.some /\ ~loc.some ->
            Some(Month(y.value, m.value))
      [] y.some /\ m.some /\ d.some /\ ~loc.some ->
            Some(Day(y.value, m.value, d.value))
      [] y.some /\ m.some /\ d.some /\ loc.some ->
            Some(ItemLocation(loc.value))
      [] OTHER -> Absent

\* Location::new
location_new(y, m, d, loc) ==
    CASE ~y.some /\ ~m.some /\ ~d.some /\ ~loc.some -> Some(Root)
      [] y.some /\ ~m.some /\ ~d.some /\ ~loc.some -> Some(Year(y.value))
      [] y.some /\ m.some /\ ~d.some /\ ~loc.some ->
            Some(Month(y.value, m.value))
      [] y.some /\ m.some /\ d.some /\ ~loc.some ->
            Some(Day(y.value, m.value, d.value))
      [] y.some /\ m.some /\ d.some /\ loc.some ->
            IF /\ y.value = loc.value.timestamp.year
               /\ m.value = loc.value.timestamp.month
               /\ d.value = loc.value.timestamp.day
            THEN Some(ItemLocation(loc.value))
            ELSE Absent
      [] OTHER -> Absent

\* The component of a path at a position, parsed, when there is one.
part_parsed(path, at, Parse(_)) ==
    IF at <= Len(path) THEN Some(Parse(path[at])) ELSE Absent

parsed_ok(part) == part.some => part.value.ok

unwrapped(part) == IF part.some THEN Some(part.value.value) ELSE Absent

\* Location::try_from: the first four components are the year, the month,
\* the day and the item; what comes after them is not read.
try_from(path) ==
    With(<<part_parsed(path, 1, parse_i32), part_parsed(path, 2, parse_two),
           part_parsed(path, 3, parse_two),
           part_parsed(path, 4, item_locator_from_str)>>, LAMBDA parts :
      IF \A i \in 1..4 : parsed_ok(parts[i])
      THEN location_new(unwrapped(parts[1]), unwrapped(parts[2]),
                        unwrapped(parts[3]), unwrapped(parts[4]))
      ELSE Absent)

\* The greatest of a set of days <<year, month, day>>.
later(a, b) ==
    \/ a[1] > b[1]
    \/ a[1] = b[1] /\ a[2] > b[2]
    \/ a[1] = b[1] /\ a[2] = b[2] /\ a[3] >= b[3]

max_day(days) == CHOOSE a \in days : \A b \in days : later(a, b)

\* TimestampsLocator::directory
locator_directory(days, Mapper(_)) ==
    IF days # {}
    THEN With(max_day(days), LAMBDA last :
           Some(LocDirectory(to_timespec(Tm(last[1], last[2], last[3], 0, 0, 0)),
                             {Mapper(a) : a \in days})))
    ELSE Absent

range(items) == {items[i] : i \in 1..Len(items)}

year_name(a) == ToString(a[1])
month_name(a) == pad2(a[2])
day_name(a) == pad2(a[3])

locate_root(items) ==
    locator_directory({<<i.timestamp.year, 1, 1>> : i \in range(items)},
                      year_name)

locate_year(items, y) ==
    locator_directory({<<i.timestamp.year, i.timestamp.month, 1>> :
                          i \in {j \in range(items) : j.timestamp.year = y}},
                      month_name)

locate_month(items, y, m) ==
    locator_directory({<<i.timestamp.year, i.timestamp.month, i.timestamp.day>> :
                          i \in {j \in range(items) :
                                    /\ j.timestamp.year = y
                                    /\ j.timestamp.month = m}},
                      day_name)

\* The items of a day, in the order of the collection.
of_day(items, y, m, d) ==
    SelectSeq(items, LAMBDA i : /\ i.timestamp.year = y
                                /\ i.timestamp.month = m
                                /\ i.timestamp.day = d)

\* sort_by_key(|i| &i.timestamp): a stable sort, here by the time.
RECURSIVE insert_sorted(_, _)
insert_sorted(sorted, i) ==
    IF sorted = <<>> THEN <<i>>
    ELSE IF to_timespec(sorted[Len(sorted)].timestamp) <= to_timespec(i.timestamp)
         THEN Append(sorted, i)
         ELSE Append(insert_sorted(SubSeq(sorted, 1, Len(sorted) - 1), i),
                     sorted[Len(sorted)])

RECURSIVE sort_by_timestamp(_)
sort_by_timestamp(items) ==
    IF items = <<>> THEN <<>>
    ELSE insert_sorted(sort_by_timestamp(SubSeq(items, 1, Len(items) - 1)),
                       items[Len(items)])

\* data::name(item, item, index)
item_name(i, idx) ==
    name(format_timestamp(i.timestamp), mime_file_extension(i.media_type), idx)

\* The loop of locate_day: the first index at which the name of the item is
\* not the last name listed.
RECURSIVE listed_name(_, _, _)
listed_name(acc, i, idx) ==
    IF acc # <<>> /\ acc[Len(acc)] = item_name(i, idx)
    THEN listed_name(acc, i, idx + 1)
    ELSE item_name(i, idx)

\* The fold of locate_day.
RECURSIVE listed_names(_, _)
listed_names(acc, items) ==
    IF items = <<>> THEN acc
    ELSE listed_names(Append(acc, listed_name(acc, Head(items), 0)), Tail(items))

locate_day(items, y, m, d) ==
    With(sort_by_timestamp(of_day(items, y, m, d)), LAMBDA sorted :
      IF sorted # <<>>
      THEN Some(LocDirectory(to_timespec(sorted[Len(sorted)].timestamp),
                             range(listed_names(<<>>, sorted))))
      ELSE Absent)

locate_item(items, loc) ==
    With(of_day(items, loc.timestamp.year, loc.timestamp.month,
                loc.timestamp.day), LAMBDA found :
      IF loc.index < Len(found) THEN Some(LocItem(found[loc.index + 1]))
      ELSE Absent)

\* Locator for TimestampsLocator
timestamps_locate(items, path) ==
    With(try_from(path), LAMBDA location :
      IF ~location.some THEN Absent
      ELSE CASE location.value.kind = "Root" -> locate_root(items)
             [] location.value.kind = "Year" ->
                   locate_year(items, location.value.year)
             [] location.value.kind = "Month" ->
                   locate_month(items, location.value.year,
                                location.value.month)
             [] location.value.kind = "Day" ->
                   locate_day(items, location.value.year, location.value.month,
                              location.value.day)
             [] location.value.kind = "Item" ->
                   locate_item(items, location.value.item))

\* str::parse::<usize>
parse_usize(text) ==
    IF is_digits(text) THEN Parsed(digits_value(text))
    ELSE IF Len(text) > 1 /\ char_at(text, 1) = "+"
              /\ is_digits(slice(text, 2, Len(text)))
         THEN Parsed(digits_value(slice(text, 2, Len(text))))
         ELSE Unparsed

\* The fold of DummyLocator: the number of components when component i is
\* the number i, counted from 0.
RECURSIVE dummy_fold(_, _)
dummy_fold(path, i) ==
    IF i >= Len(path) THEN Some(i)
    ELSE IF parse_usize(path[i + 1]) = Parsed(i) THEN dummy_fold(path, i + 1)
         ELSE Absent

\* Locator for DummyLocator
dummy_locate(items, path) ==
    IF dummy_fold(path, 0).some
    THEN Some(LocDirectory(0, {ToString(dummy_fold(path, 0).value)}))
    ELSE Absent

\* The locators registered with the dispatcher, by name.
Dispatch == [All |-> "timestamps", Numbers |-> "dummy"]

registered_locate(locator, items, path) ==
    IF locator = "timestamps" THEN timestamps_locate(items, path)
    ELSE dummy_locate(items, path)

Normal(part) == part \notin {RootDir, CurDir, ParentDir}

\* skip_while that skips nothing.
skip_nothing(path) == path

\* skip_while(not normal)
RECURSIVE skip_while_not_normal(_)
skip_while_not_normal(path) ==
    IF path # <<>> /\ ~Normal(Head(path))
    THEN skip_while_not_normal(Tail(path))
    ELSE path

\* Locator for DispatchLocator
dispatch_locate(items, path) ==
    With(skip_while_not_normal(path), LAMBDA rest :
      IF rest # <<>>
      THEN IF Head(rest) \in DOMAIN Dispatch
           THEN registered_locate(Dispatch[Head(rest)], items, Tail(rest))
           ELSE Absent
      ELSE Some(LocDirectory(0, DOMAIN Dispatch)))

\* The paths the locators are asked for.
DayPaths ==
    {<<"2000", "01", "01">>, <<"2000", "01", "02">>, <<"2000", "01", "03">>}

ItemNames ==
    {"2000-01-01 00:00:00.jpeg", "2000-01-01 00:00:00 (1).jpeg",
     "2000-01-01 00:00:00 (2).jpeg", "2000-01-02 00:00:00.png",
     "2000-01-01 00:00.jpeg", "x2000-01-01 00:00:30 (1).jpeg"}

\* The paths Location::try_from is given.
LocationPaths ==
    {<<>>, <<"2000">>, <<"-1">>, <<"2000", "01">>, <<"2000", "1">>,
     <<"2000", "02">>, <<"year">>, <<"2000", "01", "01", "name", "more">>}
        \cup DayPaths
        \cup {<<"2000", "01", "01", n>> : n \in ItemNames}
        \cup {<<"2000", "01", "02", "2000-01-02 00:00:00.png", "more">>}

LocatorPaths ==
    {<<>>, <<"2000">>, <<"1999">>, <<"2000", "01">>,
     <<"2000", "01", "01", "2000-01-01 00:00:00.jpeg">>,
     <<"2000", "01", "01", "2000-01-01 00:00:00 (1).jpeg">>,
     <<"2000", "01", "01", "2000-01-01 00:00.jpeg">>,
     <<"2000", "01", "02", "2000-01-02 00:00:00.png", "more">>}
        \cup DayPaths

DispatchPaths ==
    {<<>>, <<"/", ".">>, <<"None">>, <<"/", "None", "0">>,
     <<"All">>, <<"/", "All", "2000">>, <<".", "All", "2000", "01", "01">>,
     <<"..", "..", "Numbers">>, <<"Numbers", "0", "1">>, <<"Numbers", "1">>,
     <<"/", "..", "All", "..", "2000">>}

\* The items the located collection is made of: three of one day and one
\* minute, one of another day.
LocatedItems == {ItemA, ItemB, ItemC2, ItemD}

Options(values) == {Absent} \cup {Some(v) : v \in values}

ItemLocators ==
    {ItemLocator(T2000a, 0, "jpeg"), ItemLocator(T2000b, 1, "jpeg"),
     ItemLocator(T2000c, 0, "png")}

LocationNew(y, m, d, loc) ==
    /\ call' = [op |-> "location_new", year |-> y, month |-> m, day |-> d,
                item |-> loc, result |-> location_new(y, m, d, loc)]
    /\ UNCHANGED <<cache, added, systemVars, unitVars>>

ParseName(text) ==
    /\ call' = [op |-> "parse", input |-> text,
                item |-> item_locator_from_str(text), i32 |-> parse_i32(text),
                usize |-> parse_usize(text)]
    /\ UNCHANGED <<cache, added, systemVars, unitVars>>

TryFrom(path) ==
    /\ call' = [op |-> "try_from", path |-> path, result |-> try_from(path)]
    /\ UNCHANGED <<cache, added, systemVars, unitVars>>

TimestampsLocate(path) ==
    /\ call' = [op |-> "timestamps_locate", path |-> path,
                result |-> timestamps_locate(collection.items, path)]
    /\ UNCHANGED <<cache, added, systemVars, unitVars>>

\* A day directory is listed, and one of the listed names is located in it.
LocateListed(path) ==
    /\ timestamps_locate(collection.items, path).some
    /\ \E listed \in timestamps_locate(collection.items, path).value.tree :
          call' = [op |-> "locate_listed", path |-> Append(path, listed),
                   result |-> timestamps_locate(collection.items,
                                                Append(path, listed))]
    /\ UNCHANGED <<cache, added, systemVars, unitVars>>

DispatchLocate(path) ==
    /\ call' = [op |-> "dispatch_locate", path |-> path,
                result |-> dispatch_locate(collection.items, path)]
    /\ UNCHANGED <<cache, added, systemVars, unitVars>>

\* The locators asked about a collection that grows.
NextLocate ==
    \/ \E i \in LocatedItems : CollectionAdd(i)
    \/ \E path \in LocatorPaths : TimestampsLocate(path)
    \/ \E path \in DayPaths : LocateListed(path)
    \/ \E path \in DispatchPaths : DispatchLocate(path)

SpecLocate == InitPure /\ [][NextLocate]_vars

-----------------------------------------------------------------------------
(* The tags source (sources/file_system/tags.rs): items made of the         *)
(* metadata of the files, read once for each path.                          *)

\* A file under the source root: whether its metadata can be read, whether
\* it holds Exif.Photo.DateTimeOriginal and the time that holds, its
\* Iptc.Application2.Keywords, and its modification time.
File(readable, dated, taken, keywords, modified) ==
    [readable |-> readable, dated |-> dated, taken |-> taken,
     keywords |-> keywords, modified |-> modified]

FileStates ==
    {NoExif, File(FALSE, FALSE, T2000a, {}, T2000c),
     File(TRUE, TRUE, T1960, {TagX}, T2000a),
     File(TRUE, FALSE, T2000a, {}, T2000c)}

\* ItemMeta
Missing == [kind |-> "Missing"]
Present(tm, keywords) == [kind |-> "Present", timestamp |-> tm, tags |-> keywords]

\* From<P> for ItemMeta, with ItemMeta::timestamp and ItemMeta::tags
item_meta_from(file) ==
    IF file.readable
    THEN Present(IF file.dated THEN file.taken ELSE file.modified, file.keywords)
    ELSE Missing

\* The item of a path alone: the modification time of the file, no tags.
item_from_path(path, file) == Item(path, file.modified, {})

\* ItemMeta::item
item_meta_item(meta, path, file) ==
    IF meta.kind = "Missing" THEN item_from_path(path, file)
    ELSE Item(path, meta.timestamp, meta.tags)

\* item that reads the metadata at every call.
tags_item_fresh(source, files, path) ==
    [source |-> [tags |-> (path :> item_meta_from(files[path])) @@ source.tags],
     decoded |-> TRUE,
     item |-> item_meta_item(item_meta_from(files[path]), path, files[path])]

\* FileSystemItemGenerator::item for TagsSource: entry(key).or_insert_with
tags_item(source, files, path) ==
    IF path \in DOMAIN source.tags
    THEN [source |-> source, decoded |-> FALSE,
          item |-> item_meta_item(source.tags[path], path, files[path])]
    ELSE [source |-> [tags |-> (path :> item_meta_from(files[path]))
                                  @@ source.tags],
          decoded |-> TRUE,
          item |-> item_meta_item(item_meta_from(files[path]), path,
                                  files[path])]

\* The items populate hands to replace_all, one for each path of the walk.
RECURSIVE tags_items(_, _, _)
tags_items(source, files, paths) ==
    IF paths = <<>> THEN [source |-> source, decoded |-> {}, items |-> <<>>]
    ELSE With(tags_item(source, files, Head(paths)), LAMBDA first :
           With(tags_items(first.source, files, Tail(paths)), LAMBDA others :
             [source |-> others.source,
              decoded |-> (IF first.decoded THEN {Head(paths)} ELSE {})
                              \cup others.decoded,
              items |-> <<first.item>> \o others.items]))

\* The image files the walk of the source root finds.
Walk == <<"a.jpg", "b.jpg">>

TagsItem(path) ==
    /\ \E r \in {tags_item(tagsSource, exif, path)} :
          /\ tagsSource' = r.source
          /\ call' = [op |-> "tags_item", path |-> path,
                      decoded |-> r.decoded, result |-> r.item]
    /\ UNCHANGED <<cache, added, systemVars, collection, monitor, exif>>

\* populate of a TagsSource.
TagsPopulate ==
    /\ \E r \in {tags_items(tagsSource, exif, Walk)} :
          /\ tagsSource' = r.source
          /\ cache' = replace_all(cache, r.items).cache
          /\ added' = returned([cache EXCEPT !.root = clear(cache.root)], r.items)
          /\ call' = [op |-> "tags_populate", decoded |-> r.decoded,
                      items |-> r.items]
    /\ UNCHANGED <<systemVars, collection, monitor, exif>>

\* A file under the source root is written anew.
Rewrite(path, file) ==
    /\ exif[path] # file
    /\ exif' = [exif EXCEPT ![path] = file]
    /\ call' = [op |-> "rewrite", path |-> path]
    /\ UNCHANGED <<cache, added, systemVars, collection, monitor, tagsSource>>

\* A tags source whose files change between the calls of item and populate.
NextTags ==
    \/ \E path \in DOMAIN exif : TagsItem(path)
    \/ TagsPopulate
    \/ \E path \in DOMAIN exif, file \in FileStates : Rewrite(path, file)

SpecTags == InitPure /\ [][NextTags]_vars

\* Locations made of parts and of paths.
NextLocation ==
    \/ \E y \in Options({1999, 2000}), m \in Options({1, 2}), d \in Options({1, 2}),
          loc \in Options(ItemLocators) : LocationNew(y, m, d, loc)
    \/ \E path \in LocationPaths : TryFrom(path)
    \/ \E text \in ItemNames \cup {"2000", "01", "+7", "x"} : ParseName(text)

SpecLocation == InitPure /\ [][NextLocation]_vars

-----------------------------------------------------------------------------
(* The callbacks.  A callback that looks a path up runs notify! on the     *)
(* source, then cache! on the cache, then lookup!; each step below is one  *)
(* step of one worker thread.                                              *)

Reply(t, status, errno) ==
    [thread[t] EXCEPT !.pc = "done", !.status = status, !.errno = errno]

\* The kernel sends a callback for a path to an idle worker.
Begin(t, op, path, req) ==
    /\ thread[t].pc = "idle"
    /\ op = "open" =>
          Cardinality(handles)
            + Cardinality({u \in Workers : thread[u].op = "open"}) < MaxHandles
    /\ thread' = [thread EXCEPT ![t] =
                    [Idle EXCEPT !.pc = "notify", !.op = op, !.path = path,
                                 !.req = req,
                                 !.late = (Panicked # {}),
                                 !.due = IF ~last_seen.some
                                            \/ last_seen.t < rootMtime
                                         THEN rootMtime ELSE 0]]
    /\ UNCHANGED <<cache, apiVars, unitVars, cacheLock, sourceLock, last_seen, disk,
                   rootMtime, rootReadable, fds, handles, complete, notifies>>

\* notify!: $source.write(), EDEADLK when it fails.
NotifyLock(t) ==
    /\ thread[t].pc = "notify"
    /\ IF lock_result(sourceLock) = "Err"
       THEN /\ thread' = [thread EXCEPT ![t] =
                            [Reply(t, "err", "EDEADLK") EXCEPT !.poisoned = TRUE]]
            /\ UNCHANGED sourceLock
       ELSE /\ can_write(sourceLock)
            /\ sourceLock' = [sourceLock EXCEPT !.writer = t]
            /\ thread' = [thread EXCEPT ![t].pc = "stat",
                                        ![t].poisoned = sourceLock.poisoned]
    /\ UNCHANGED <<cache, apiVars, unitVars, cacheLock, last_seen, disk, rootMtime,
                   rootReadable, fds, handles, complete, notifies>>

\* Source::notify: the modification time of the root against the last seen.
NotifyStat(t) ==
    /\ thread[t].pc = "stat"
    /\ \E read \in {metadata_modified(rootReadable, rootMtime)} :
       \E scan \in {read.ok /\ stale(last_seen, read.t)} :
          /\ notifies' = <<notifies[2],
                           [seen |-> TRUE, mtime |-> rootMtime,
                            readable |-> rootReadable, scanned |-> scan]>>
          /\ IF scan
             THEN /\ thread' = [thread EXCEPT ![t].pc = "populate",
                                              ![t].stamp = read.t,
                                              ![t].notified = TRUE,
                                              ![t].due =
                                                  IF rootReadable THEN @ ELSE 0]
                  /\ UNCHANGED sourceLock
             ELSE /\ thread' = [thread EXCEPT ![t].pc = "cache",
                                              ![t].notified = TRUE,
                                              ![t].due =
                                                  IF rootReadable THEN @ ELSE 0]
                  /\ sourceLock' = unlock(sourceLock)
    /\ UNCHANGED <<cache, apiVars, unitVars, cacheLock, last_seen, disk, rootMtime,
                   rootReadable, fds, handles, complete>>

\* populate: self.cache().write(); nothing is done when it fails, and notify
\* then stores the time it read.
PopulateLock(t) ==
    /\ thread[t].pc = "populate"
    /\ IF lock_result(cacheLock) = "Err"
       THEN /\ last_seen' = SomeTime(thread[t].stamp)
            /\ sourceLock' = unlock(sourceLock)
            /\ thread' = [thread EXCEPT ![t].pc = "cache"]
            /\ UNCHANGED cacheLock
       ELSE /\ can_write(cacheLock)
            /\ cacheLock' = [cacheLock EXCEPT !.writer = t]
            /\ thread' = [thread EXCEPT ![t].pc = "clear"]
            /\ UNCHANGED <<last_seen, sourceLock>>
    /\ UNCHANGED <<cache, apiVars, unitVars, disk, rootMtime, rootReadable, fds, handles,
                   complete, notifies>>

\* populate, replace_all: the root is cleared and the walk of the source
\* root starts; the walk yields the image files in some order.
PopulateClear(t) ==
    /\ thread[t].pc = "clear"
    /\ \E walk \in walks({f \in disk : is_image(f)}) :
          thread' = [thread EXCEPT ![t].pc = "add", ![t].pending = walk]
    /\ cache' = [cache EXCEPT !.root = clear(cache.root)]
    /\ UNCHANGED <<apiVars, unitVars, cacheLock, sourceLock, last_seen, disk, rootMtime,
                   rootReadable, fds, handles, complete, notifies>>

\* populate, replace_all: the next item of the walk is added; the unwrap
\* panics when the add fails, and the unwinding drops both write guards.
PopulateAdd(t) ==
    /\ thread[t].pc = "add"
    /\ thread[t].pending # <<>>
    /\ \E r \in {add(cache, generator_item(Head(thread[t].pending)))} :
          /\ cache' = r.cache
          /\ IF r.result.ok
             THEN /\ thread' = [thread EXCEPT ![t].pending = Tail(@)]
                  /\ UNCHANGED <<cacheLock, sourceLock>>
             ELSE /\ thread' = [thread EXCEPT ![t].pc = "panicked"]
                  /\ cacheLock' = unwind(cacheLock)
                  /\ sourceLock' = unwind(sourceLock)
    /\ UNCHANGED <<apiVars, unitVars, last_seen, disk, rootMtime, rootReadable, fds,
                   handles, complete, notifies>>

\* populate returns, notify stores the time it read, notify! ends.
PopulateDone(t) ==
    /\ thread[t].pc = "add"
    /\ thread[t].pending = <<>>
    /\ cacheLock' = unlock(cacheLock)
    /\ complete' = cache.root
    /\ last_seen' = SomeTime(thread[t].stamp)
    /\ sourceLock' = unlock(sourceLock)
    /\ thread' = [thread EXCEPT ![t].pc = "cache"]
    /\ UNCHANGED <<cache, apiVars, unitVars, disk, rootMtime, rootReadable, fds, handles,
                   notifies>>

\* cache!: $cache.read(), EDEADLK when it fails.
CacheLock(t) ==
    /\ thread[t].pc = "cache"
    /\ IF lock_result(cacheLock) = "Err"
       THEN /\ thread' = [thread EXCEPT ![t] =
                            [Reply(t, "err", "EDEADLK") EXCEPT !.poisoned = TRUE]]
            /\ UNCHANGED cacheLock
       ELSE /\ can_read(cacheLock)
            /\ cacheLock' = [cacheLock EXCEPT !.readers = @ \cup {t}]
            /\ thread' = [thread EXCEPT ![t].pc = "lookup",
                                        ![t].poisoned = cacheLock.poisoned]
    /\ UNCHANGED <<cache, apiVars, unitVars, sourceLock, last_seen, disk, rootMtime,
                   rootReadable, fds, handles, complete, notifies>>

\* lookup! and the body of the callback; the read guard is dropped when the
\* callback returns.
Lookup(t) ==
    /\ thread[t].pc = "lookup"
    /\ cacheLock' = [cacheLock EXCEPT !.readers = @ \ {t}]
    /\ \E entry \in {lookup(cache, thread[t].path)}, fd \in {free_fd(fds)} :
       \E seen \in {[thread[t] EXCEPT !.looked = TRUE,
                                      !.snapshot = (cache.root = complete),
                                      !.answered = IF thread[t].due > 0
                                                   THEN last_seen.t ELSE 0,
                                      !.kindv = entry.kind, !.pc = "done"]} :
          CASE entry.kind = "None" ->
                 /\ thread' = [thread EXCEPT ![t] =
                       [seen EXCEPT !.status = "err", !.errno = "ENOENT"]]
                 /\ UNCHANGED <<fds, handles>>
            [] entry.kind # "None" /\ thread[t].op = "getattr" ->
                 /\ \E r \in {result_entry(entry, disk)} :
                       thread' = [thread EXCEPT ![t] =
                          [seen EXCEPT !.status = r.reply.status,
                                       !.errno = r.reply.errno,
                                       !.attr = IF r.reply.status = "ok"
                                                THEN for_user(r.attr,
                                                              thread[t].req.uid,
                                                              thread[t].req.gid)
                                                ELSE NoAttr]]
                 /\ UNCHANGED <<fds, handles>>
            [] entry.kind # "None" /\ thread[t].op = "opendir" ->
                 /\ \E r \in {result_opendir(entry)} :
                       thread' = [thread EXCEPT ![t] =
                          [seen EXCEPT !.status = r.status, !.errno = r.errno]]
                 /\ UNCHANGED <<fds, handles>>
            [] entry.kind # "None" /\ thread[t].op = "readdir" ->
                 /\ \E r \in {result_readdir(entry)} :
                       thread' = [thread EXCEPT ![t] =
                          [seen EXCEPT !.status = r.reply.status,
                                       !.errno = r.reply.errno,
                                       !.entries = r.entries]]
                 /\ UNCHANGED <<fds, handles>>
            [] entry.kind # "None" /\ thread[t].op = "readlink" ->
                 /\ \E r \in {result_readlink(entry)} :
                       thread' = [thread EXCEPT ![t] =
                          [seen EXCEPT !.status = r.reply.status,
                                       !.errno = r.reply.errno,
                                       !.target = r.target]]
                 /\ UNCHANGED <<fds, handles>>
            [] entry.kind # "None" /\ thread[t].op = "open" ->
                 \E r \in {result_open(entry, disk)} :
                    IF r.status = "ok"
                    THEN /\ fds' = [g \in DOMAIN fds \cup {fd} |->
                                      IF g = fd
                                      THEN [file |-> entry.item.path, pos |-> 0]
                                      ELSE fds[g]]
                         /\ handles' = handles \cup {fd}
                         /\ thread' = [thread EXCEPT ![t] =
                               [seen EXCEPT !.status = "ok", !.fh = fd]]
                    ELSE /\ thread' = [thread EXCEPT ![t] =
                               [seen EXCEPT !.status = "err",
                                            !.errno = r.errno]]
                         /\ UNCHANGED <<fds, handles>>
    /\ UNCHANGED <<cache, apiVars, unitVars, sourceLock, last_seen, disk, rootMtime,
                   rootReadable, complete, notifies>>

\* The reply reaches the kernel and the worker is idle again.
Return(t) ==
    /\ thread[t].pc = "done"
    /\ thread' = [thread EXCEPT ![t] = Idle]
    /\ UNCHANGED <<cache, apiVars, unitVars, cacheLock, sourceLock, last_seen, disk,
                   rootMtime, rootReadable, fds, handles, complete, notifies>>

\* The kernel sends read for a handle it holds.
BeginRead(t, fh, offset, size) ==
    /\ thread[t].pc = "idle"
    /\ fh \in handles
    /\ thread' = [thread EXCEPT ![t] =
                    [Idle EXCEPT !.pc = "seek", !.op = "read", !.fh = fh,
                                 !.offset = offset, !.size = size,
                                 !.late = (Panicked # {})]]
    /\ UNCHANGED <<cache, apiVars, unitVars, cacheLock, sourceLock, last_seen, disk,
                   rootMtime, rootReadable, fds, handles, complete, notifies>>

\* read: File::from_raw_fd, then file.seek(SeekFrom::Start(offset)); when the
\* seek fails the read is skipped.
ReadSeek(t) ==
    /\ thread[t].pc = "seek"
    /\ IF thread[t].fh \in DOMAIN fds
       THEN /\ fds' = [fds EXCEPT ![thread[t].fh].pos = thread[t].offset]
            /\ thread' = [thread EXCEPT ![t].pc = "read"]
       ELSE /\ fds' = into_raw_fd(fds, thread[t].fh)
            /\ thread' = [thread EXCEPT ![t] = Reply(t, "err", "EIO")]
    /\ UNCHANGED <<cache, apiVars, unitVars, cacheLock, sourceLock, last_seen, disk,
                   rootMtime, rootReadable, handles, complete, notifies>>

\* read: file.read(&mut buffer) from the position of the descriptor, which
\* the system may fail with an input/output error, then file.into_raw_fd().
ReadRead(t) ==
    /\ thread[t].pc = "read"
    /\ \E fh \in {thread[t].fh}, failed \in BOOLEAN :
          IF fh \in DOMAIN fds /\ ~failed
          THEN \E data \in {bytes(fds[fh].file, fds[fh].pos, thread[t].size)} :
                  /\ fds' = into_raw_fd(
                               [fds EXCEPT ![fh].pos = @ + Len(data)], fh)
                  /\ thread' = [thread EXCEPT ![t] =
                        [Reply(t, "ok", "") EXCEPT !.data = data]]
          ELSE /\ fds' = into_raw_fd(fds, fh)
               /\ thread' = [thread EXCEPT ![t] = Reply(t, "err", "EIO")]
    /\ UNCHANGED <<cache, apiVars, unitVars, cacheLock, sourceLock, last_seen, disk,
                   rootMtime, rootReadable, handles, complete, notifies>>

\* release: the kernel sends it once for a handle, after the reads on it.
Release(t, fh) ==
    /\ thread[t].pc = "idle"
    /\ fh \in handles
    /\ \A u \in Workers : thread[u].op = "read" => thread[u].fh # fh
    /\ fds' = drop_file(fds, fh)
    /\ handles' = handles \ {fh}
    /\ thread' = [thread EXCEPT ![t] =
                    [Idle EXCEPT !.pc = "done", !.op = "release", !.fh = fh,
                                 !.status = "ok", !.late = (Panicked # {})]]
    /\ UNCHANGED <<cache, apiVars, unitVars, cacheLock, sourceLock, last_seen, disk,
                   rootMtime, rootReadable, complete, notifies>>

\* A file is created in or removed from the source root, which advances the
\* modification time of the root.
Modify(f) ==
    /\ rootMtime < MaxMtime
    /\ rootMtime' = rootMtime + 1
    /\ disk' = IF f \in disk THEN disk \ {f} ELSE disk \cup {f}
    /\ UNCHANGED <<cache, apiVars, unitVars, cacheLock, sourceLock, last_seen,
                   rootReadable, fds, handles, thread, complete, notifies>>

\* The metadata of the source root becomes unreadable, or readable again.
Chmod ==
    /\ rootReadable' = ~rootReadable
    /\ UNCHANGED <<cache, apiVars, unitVars, cacheLock, sourceLock, last_seen, disk,
                   rootMtime, fds, handles, thread, complete, notifies>>

Init ==
    /\ \E cfg \in Mounts : cache = new(cfg.timestamp_root, cfg.tagged_root)
    /\ call = [op |-> "new"]
    /\ added = <<>>
    /\ InitSystem

\* getattr callbacks on a source directory that changes.
Next ==
    \/ \E t \in Workers, path \in RequestPaths : Begin(t, "getattr", path, UserRequest)
    \/ \E t \in Workers : NotifyLock(t)
    \/ \E t \in Workers : NotifyStat(t)
    \/ \E t \in Workers : PopulateLock(t)
    \/ \E t \in Workers : PopulateClear(t)
    \/ \E t \in Workers : PopulateAdd(t)
    \/ \E t \in Workers : PopulateDone(t)
    \/ \E t \in Workers : CacheLock(t)
    \/ \E t \in Workers : Lookup(t)
    \/ \E t \in Workers : Return(t)
    \/ \E f \in Files : Modify(f)
    \/ Chmod

\* open, read and release callbacks on a source directory that is left alone.
NextFiles ==
    \/ \E t \in Workers, path \in RequestPaths : Begin(t, "open", path, UserRequest)
    \/ \E t \in Workers : NotifyLock(t)
    \/ \E t \in Workers : NotifyStat(t)
    \/ \E t \in Workers : PopulateLock(t)
    \/ \E t \in Workers : PopulateClear(t)
    \/ \E t \in Workers : PopulateAdd(t)
    \/ \E t \in Workers : PopulateDone(t)
    \/ \E t \in Workers : CacheLock(t)
    \/ \E t \in Workers : Lookup(t)
    \/ \E t \in Workers : Return(t)
    \/ \E t \in Workers, fh \in handles, offset \in Offsets, size \in Sizes :
          BeginRead(t, fh, offset, size)
    \/ \E t \in Workers : ReadSeek(t)
    \/ \E t \in Workers : ReadRead(t)
    \/ \E t \in Workers, fh \in handles : Release(t, fh)

\* The paths and callbacks of the requests on the mounted tree.
TreePaths ==
    { <<"/">>,
      <<"/", "All", "2000", "01", "01">>,
      <<"/", "All", "2000", "01", "01", "2000-01-01 00:00.jpeg">>,
      <<"/", "Tagged", "x">>,
      <<"/", "Tagged", "x", "2000-01-01 00:00.jpeg">>,
      <<"/", "invalid", "path">> }

Callbacks == {"getattr", "opendir", "readdir", "readlink", "open"}

\* Every callback that looks a path up, sent by one worker at a time, on a
\* source directory that changes.
NextRequests ==
    \/ \E op \in Callbacks, path \in TreePaths, req \in Requests :
          Begin(1, op, path, req)
    \/ NotifyLock(1)
    \/ NotifyStat(1)
    \/ PopulateLock(1)
    \/ PopulateClear(1)
    \/ PopulateAdd(1)
    \/ PopulateDone(1)
    \/ CacheLock(1)
    \/ Lookup(1)
    \/ Return(1)
    \/ \E fh \in handles : Release(1, fh)
    \/ \E f \in Files : Modify(f)
    \/ Chmod

Spec == Init /\ [][Next]_vars

SpecRequests == Init /\ [][NextRequests]_vars

SpecFiles == Init /\ [][NextFiles]_vars

\* getattr callbacks for the root on a source directory in which a file that
\* is no image comes and goes, so that populate runs again and again, with
\* the worker threads scheduled fairly: a thread that can take a step takes
\* it, and a thread that waits for a lock gets it when the lock is free
\* again and again.
NextLive ==
    \/ \E t \in Workers : Begin(t, "getattr", <<"/">>, UserRequest)
    \/ \E t \in Workers : NotifyLock(t)
    \/ \E t \in Workers : NotifyStat(t)
    \/ \E t \in Workers : PopulateLock(t)
    \/ \E t \in Workers : PopulateClear(t)
    \/ \E t \in Workers : PopulateAdd(t)
    \/ \E t \in Workers : PopulateDone(t)
    \/ \E t \in Workers : CacheLock(t)
    \/ \E t \in Workers : Lookup(t)
    \/ \E t \in Workers : Return(t)
    \/ Modify("notes.txt")

\* The steps of the callback the worker thread t runs.
Callback(t) ==
    \/ NotifyLock(t)
    \/ NotifyStat(t)
    \/ PopulateLock(t)
    \/ PopulateClear(t)
    \/ PopulateAdd(t)
    \/ PopulateDone(t)
    \/ CacheLock(t)
    \/ Lookup(t)

FairLive == \A t \in Workers : SF_vars(Callback(t))

SpecLive == Init /\ [][NextLive]_vars /\ FairLive

\* Another holder of the shared cache panics with the write guard it took:
\* the lock of the cache is poisoned, that of the source is not.
PoisonCache ==
    /\ can_write(cacheLock)
    /\ ~cacheLock.poisoned
    /\ cacheLock' = [cacheLock EXCEPT !.poisoned = TRUE]
    /\ UNCHANGED <<cache, apiVars, unitVars, sourceLock, last_seen, disk,
                   rootMtime, rootReadable, fds, handles, thread, complete,
                   notifies>>

\* The source notified through a cache it shares with a holder that may
\* poison the lock.
NextSource ==
    \/ \E t \in Workers : Begin(t, "getattr", <<"/">>, UserRequest)
    \/ \E t \in Workers : NotifyLock(t)
    \/ \E t \in Workers : NotifyStat(t)
    \/ \E t \in Workers : PopulateLock(t)
    \/ \E t \in Workers : PopulateClear(t)
    \/ \E t \in Workers : PopulateAdd(t)
    \/ \E t \in Workers : PopulateDone(t)
    \/ \E t \in Workers : CacheLock(t)
    \/ \E t \in Workers : Lookup(t)
    \/ \E t \in Workers : Return(t)
    \/ Modify("b.jpg")
    \/ PoisonCache

SpecSource == InitPure /\ [][NextSource]_vars

-----------------------------------------------------------------------------
(* The claims about the Cache API, checked under SpecCache.                *)

\* C1: after a successful add(item), lookup on the returned path yields an
\* Item entry equal to the added item (items are equal by source path).
AddThenLookup ==
    (call.op = "add" /\ call.result.ok) =>
        LET entry == lookup(cache, call.result.path)
        IN entry.kind = "Item" /\ item_eq(entry.item, call.item)

\* An add has succeeded on a name that was taken, so that the returned path
\* carries a collision index, and the lookup finds the item.
AddThenLookupWitness ==
    /\ call.op = "add" /\ call.result.ok
    /\ Len(added) >= 2
    /\ call.result.path[Len(call.result.path)] =
           format_timestamp(call.item.timestamp) \o " (1)."
               \o mime_file_extension(call.item.media_type)
    /\ lookup(cache, call.result.path).kind = "Item"

\* The n first items added since the root was empty have the timestamp and
\* the extension of the first one.
SameStamp(n) ==
    \A k \in 1..n :
        /\ added[k].item.timestamp = added[1].item.timestamp
        /\ mime_file_extension(added[k].item.media_type) =
               mime_file_extension(added[1].item.media_type)

IndexSuffix(k) == IF k = 0 THEN "" ELSE " (" \o ToString(k) \o ")"

\* C2: when n items with identical timestamps and extensions are added in
\* order to an empty cache, the k-th add (k = 0..n-1) returns the path whose
\* name carries the collision index k: the paths differ by the index alone
\* and the indices are 0, 1, 2, ...
ContiguousIndices ==
    \A n \in 1..Len(added) :
        SameStamp(n) =>
            LET first == added[1].item
                path == added[n].path
            IN /\ SubSeq(path, 1, Len(path) - 1) =
                      SubSeq(added[1].path, 1, Len(added[1].path) - 1)
               /\ path[Len(path)] =
                      format_timestamp(first.timestamp) \o IndexSuffix(n - 1)
                          \o "." \o mime_file_extension(first.media_type)

\* Three items with the same timestamp and extension have been added to an
\* empty cache, and the third path carries the index 2.
ContiguousIndicesWitness ==
    /\ Len(added) >= 3
    /\ SameStamp(3)
    /\ added[3].path[Len(added[3].path)] = "2000-01-01 00:00 (2).jpeg"
    /\ added[1].item.path # added[2].item.path
    /\ added[2].item.path # added[3].item.path

\* C4: after a successful replace_all(items), the tree is the one obtained
\* by adding the same items in the same order to an empty cache; so a path
\* that resolved before the call resolves after it only if it resolves in
\* that tree, and every path of that tree resolves.
ReplaceAllIsFresh ==
    (call.op = "replace_all" /\ call.result.ok) =>
        LET fresh == add_iter(new(cache.timestamp_root, cache.tagged_root),
                              call.items).cache
        IN /\ cache.root = fresh.root
           /\ \A p \in call.resolved : resolves(cache, p) => resolves(fresh, p)
           /\ \A k \in 1..Len(added) : resolves(cache, added[k].path)

\* A replace_all of some items has succeeded on a cache in which a path
\* resolved that the new items do not give.
ReplaceAllIsFreshWitness ==
    /\ call.op = "replace_all" /\ call.result.ok
    /\ call.items # <<>>
    /\ \E p \in call.resolved : ~resolves(cache, p)
    /\ \E k \in 1..Len(added) : resolves(cache, added[k].path)

\* The timestamps of the items and links below an entry.
RECURSIVE leaf_timestamps(_)
leaf_timestamps(entry) ==
    CASE entry.kind = "Directory" ->
            UNION {leaf_timestamps(entry.tree[n]) : n \in DOMAIN entry.tree}
      [] entry.kind = "Item" -> {to_timespec(entry.item.timestamp)}
      [] entry.kind = "Link" -> {entry.timestamp}

\* Whether the entry is, or has below it, a directory without children.
RECURSIVE has_empty_directory(_)
has_empty_directory(entry) ==
    /\ entry.kind = "Directory"
    /\ \/ DOMAIN entry.tree = {}
       \/ \E n \in DOMAIN entry.tree : has_empty_directory(entry.tree[n])

\* The entry, when it is a directory, and the directories below it.
RECURSIVE directories(_)
directories(entry) ==
    IF entry.kind = "Directory"
    THEN {entry} \cup
         UNION {directories(entry.tree[n]) : n \in DOMAIN entry.tree}
    ELSE {}

RollupOfLeaves(D) ==
    timestamp(D) = IF leaf_timestamps(D) = {} THEN 0
                   ELSE Max(leaf_timestamps(D))

RollupOfLeavesAndEmpty(D) ==
    timestamp(D) = Max(leaf_timestamps(D) \cup
                          (IF has_empty_directory(D) THEN {0} ELSE {}))

\* C5 as claimed: the timestamp of every directory is the maximum of the
\* timestamps of the items and links below it, and zero when there are none.
RollupIsMaxOfLeaves ==
    \A D \in directories(cache.root) : RollupOfLeaves(D)

\* C5 as amended: the timestamp of every directory is the maximum of the
\* timestamps of the items and links below it and of a zero timestamp for
\* every directory without children that it is or that is below it.
RollupIsMaxOfLeavesAndEmpty ==
    \A D \in directories(cache.root) : RollupOfLeavesAndEmpty(D)

\* The root holds an item from before the epoch and a directory without
\* children, and its timestamp is zero; next to them, a directory whose
\* timestamp is that of the item.
RollupWitness ==
    /\ leaf_timestamps(cache.root) # {}
    /\ \A t \in leaf_timestamps(cache.root) : t < 0
    /\ has_empty_directory(cache.root)
    /\ timestamp(cache.root) = 0
    /\ \E n \in DOMAIN cache.root.tree :
           timestamp(cache.root.tree[n]) = to_timespec(T1960)

\* The number of items in the tree of an entry.
RECURSIVE item_count(_)
item_count(entry) ==
    CASE entry.kind = "Directory" ->
            IF DOMAIN entry.tree = {} THEN 0
            ELSE LET n == CHOOSE m \in DOMAIN entry.tree : TRUE
                 IN item_count(entry.tree[n])
                      + item_count(Directory([m \in DOMAIN entry.tree \ {n}
                                                |-> entry.tree[m]]))
      [] entry.kind = "Item" -> 1
      [] OTHER -> 0

\* C14: add_iter and replace_all that return a rejected item return the first
\* item of the sequence that add rejects: the items before it are in the
\* cache under the paths add gave them, the rejected item and the items after
\* it are not, and after replace_all the cache holds those earlier items
\* only, not the items it held before the call.
StopsAtFirstRejected ==
    (call.op \in {"add_iter", "replace_all"} /\ ~call.result.ok) =>
        \E k \in 1..Len(call.items) :
            /\ call.result.item = call.items[k]
            /\ Len(added) >= k - 1
            /\ \A i \in 1..(k - 1) :
                  /\ added[Len(added) - (k - 1) + i].item = call.items[i]
                  /\ lookup(cache, added[Len(added) - (k - 1) + i].path)
                        = ItemEntry(call.items[i])
            /\ item_count(cache.root) = Len(added)
            /\ call.op = "replace_all" => Len(added) = k - 1

\* replace_all of three items returned the first of them, and the cache is
\* the cleared root with the directory the rejected add created on its way.
StopsAtFirstRejectedWitness ==
    /\ call.op = "replace_all" /\ ~call.result.ok
    /\ Len(call.items) = 3 /\ call.result.item = call.items[1]
    /\ added = <<>>
    /\ cache.root = Directory("All" :> Directory(EmptyTree))

\* Every directory of "old" is a directory of "new" with at least the same
\* names, and every item or link of "old" is the same entry in "new".
RECURSIVE Preserved(_, _)
Preserved(old, new_entry) ==
    IF old.kind = "Directory"
    THEN /\ new_entry.kind = "Directory"
         /\ \A n \in DOMAIN old.tree :
               /\ n \in DOMAIN new_entry.tree
               /\ Preserved(old.tree[n], new_entry.tree[n])
    ELSE new_entry = old

\* C15: a call of add or add_iter deletes, renames and overwrites nothing:
\* every item and link is the same entry under the same path after the call,
\* and every directory keeps the children it had.
AddPreservesEntries ==
    [][call'.op \in {"add", "add_iter"} => Preserved(cache.root, cache'.root)]_vars

\* An add met a taken name in the day directory: the earlier item is still
\* under the plain name and the new one is under the name with index 1.
AddPreservesEntriesWitness ==
    /\ call.op = "add" /\ call.result.ok
    /\ Len(added) = 2
    /\ call.result.path
         = push(cache.timestamp_root,
                <<"2000", "01", "01", "2000-01-01 00:00 (1).jpeg">>)
    /\ lookup(cache, added[1].path) = ItemEntry(added[1].item)
    /\ ~item_eq(added[1].item, call.item)

\* The links below an entry, each with the path of its directory.
RECURSIVE links(_, _)
links(entry, dir) ==
    CASE entry.kind = "Directory" ->
            UNION {links(entry.tree[n], Append(dir, n)) : n \in DOMAIN entry.tree}
      [] entry.kind = "Link" ->
            {[dir |-> SubSeq(dir, 1, Len(dir) - 1), name |-> dir[Len(dir)],
              entry |-> entry]}
      [] OTHER -> {}

\* n components "..", written out.
Dots(n) == [i \in 1..n |-> ".."]

EndsWith(target, path) ==
    /\ Len(target) >= Len(path)
    /\ SubSeq(target, Len(target) - Len(path) + 1, Len(target)) = path

\* C16 as claimed: the target of every link is one ".." for each component of
\* the directory of the link followed by the path add returned for an item,
\* and so is a relative path.
LinkTargetsAreRelative ==
    \A l \in links(cache.root, <<>>) :
        /\ l.entry.target[1] # "/"
        /\ \E i \in 1..Len(added) :
              l.entry.target = Dots(Len(l.dir)) \o added[i].path

\* The path a link resolves to: the target joined to the directory of the
\* link, each ".." cancelled against the component before it.
RECURSIVE cancel_from(_, _)
cancel_from(done, rest) ==
    IF rest = <<>> THEN done
    ELSE IF Head(rest) = ".." /\ done # <<>> /\ done[Len(done)] # ".."
         THEN IF done[Len(done)] = "/"
              THEN cancel_from(done, Tail(rest))
              ELSE cancel_from(SubSeq(done, 1, Len(done) - 1), Tail(rest))
         ELSE cancel_from(Append(done, Head(rest)), Tail(rest))

resolved_target(l) == cancel_from(<<>>, push(l.dir, l.entry.target))

\* C17: in the state a successful add leaves, every link the add created
\* resolves to the item added: the target joined to the directory of the
\* link, with each ".." cancelled, is a path lookup answers with that item.
NewLinksResolve ==
    [][(call'.op = "add" /\ call'.result.ok) =>
          \A l \in links(cache'.root, <<>>) \ links(cache.root, <<>>) :
              lookup(cache', resolved_target(l)) = ItemEntry(call'.item)]_vars

\* An item with two tags of one directory was added after another item of
\* the same minute: both its links are in that directory and resolve to it.
NewLinksResolveWitness ==
    /\ call.op = "add" /\ call.result.ok /\ call.item = ItemC
    /\ Len(added) = 2
    /\ Cardinality({l \in links(cache.root, <<>>) :
                       /\ l.dir = cache.tagged_root \o <<"x">>
                       /\ lookup(cache, resolved_target(l)) = ItemEntry(ItemC)
                       /\ resolved_target(l) = call.result.path}) = 2

\* <tag_root>/<tag parent parts>/<tag leaf>, written out.
TagPath(c, tag) ==
    c.tagged_root \o (IF tag.parent.some THEN tag.parent.path ELSE <<>>)
        \o <<tag.leaf>>

\* The directory of a tag can be made: its path has no ".." and passes
\* through no item or link.
Creatable(c, directory) ==
    LET parts == components(directory)
    IN /\ \A k \in 1..Len(parts) : parts[k] # ".."
       /\ \A k \in 1..Len(parts) :
             lookup_from(c.root, SubSeq(parts, 1, k)).kind \in {"None", "Directory"}

\* The directory of the tag holds a link with the timestamp of the item
\* whose target names the path.
HasLinkTo(c, tag, item, path) ==
    LET entry == lookup(c, TagPath(c, tag))
    IN /\ entry.kind = "Directory"
       /\ \E n \in DOMAIN entry.tree :
             /\ entry.tree[n].kind = "Link"
             /\ entry.tree[n].timestamp = to_timespec(item.timestamp)
             /\ EndsWith(entry.tree[n].target, path)

LinksTo(c, path) == {l \in links(c.root, <<>>) : EndsWith(l.entry.target, path)}

\* C18 as claimed: after a successful add the directory of every tag of the
\* item exists and holds a link to the returned path, one link for each tag.
EveryTagHasLink ==
    (call.op = "add" /\ call.result.ok) =>
        /\ \A tag \in call.item.tags :
              HasLinkTo(cache, tag, call.item, call.result.path)
        /\ Cardinality(LinksTo(cache, call.result.path))
              = Cardinality(call.item.tags)

\* C18: after a successful add the directory of every tag of the item whose
\* path has no ".." and passes through no item or link exists and holds a
\* link with the timestamp of the item to the returned path, one link for
\* each such tag and none for the others.
EveryCreatableTagHasLink ==
    (call.op = "add" /\ call.result.ok) =>
        /\ \A tag \in call.item.tags :
              Creatable(cache, TagPath(cache, tag))
                  => HasLinkTo(cache, tag, call.item, call.result.path)
        /\ Cardinality(LinksTo(cache, call.result.path))
              = Cardinality({tag \in call.item.tags :
                               Creatable(cache, TagPath(cache, tag))})

\* The item with the tag x/y was added after an item of the same minute: its
\* link is in the directory y of the directory x and names the indexed path.
EveryCreatableTagHasLinkWitness ==
    /\ call.op = "add" /\ call.result.ok /\ call.item = ItemC2
    /\ call.result.path[Len(call.result.path)] = "2000-01-01 00:00 (1).jpeg"
    /\ HasLinkTo(cache, TagXY, ItemC2, call.result.path)
    /\ lookup(cache, cache.tagged_root \o <<"x", "y">>).kind = "Directory"

\* C19: add returns what the insertion of the item in the timestamp tree
\* returns, whatever becomes of the links: when that insertion succeeds, add
\* returns the path, the item is at that path, and the tags whose directory
\* cannot be made get no link and change nothing else.
UninsertableLinkIsSkipped ==
    [][call'.op = "add" =>
          \E ai \in {add_item(cache, timestamp_directory(cache, call'.item),
                               call'.item)} :
             /\ call'.result = ai.result
             /\ ai.result.ok =>
                   /\ lookup(cache', ai.result.path) = ItemEntry(call'.item)
                   /\ Preserved(ai.cache.root, cache'.root)
                   /\ Cardinality(links(cache'.root, <<>>)
                                     \ links(cache.root, <<>>))
                         = Cardinality({tag \in call'.item.tags :
                              Creatable(ai.cache,
                                        TagPath(cache, tag))})]_vars

\* The item with the tags x and x/2000-01-01 00:00.jpeg/y was added while
\* that name was a link: add returned the path, the item is there, and the
\* only link to it is the one of the tag x.
UninsertableLinkIsSkippedWitness ==
    /\ call.op = "add" /\ call.result.ok /\ call.item = ItemD
    /\ lookup(cache, cache.tagged_root \o <<"x", "2000-01-01 00:00.jpeg">>).kind
         = "Link"
    /\ lookup(cache, call.result.path) = ItemEntry(ItemD)
    /\ Cardinality(LinksTo(cache, call.result.path)) = 1
    /\ ~Creatable(cache, TagPath(cache, TagInLink))

\* The day directory and the stem of the name of an item, written out for
\* the timestamps of the model.
Placement(ts) ==
    CASE ts \in {T2000a, T2000b} ->
            [dir |-> <<"2000", "01", "01">>, stem |-> "2000-01-01 00:00"]
      [] ts = T2000c ->
            [dir |-> <<"2000", "01", "02">>, stem |-> "2000-01-02 00:00"]
      [] ts = T1960 ->
            [dir |-> <<"1960", "07", "04">>, stem |-> "1960-07-04 12:30"]

PlacementExtension(path) ==
    CASE path \in {"a.jpg", "b.jpg", "c.jpg"} -> ".jpeg"
      [] path = "d.png" -> ".png"
      [] path = "e.gif" -> ".gif"

\* C20: a successful add returns the timestamp root followed by the year,
\* the month and the day of the item (month and day in two digits) and the
\* name "YYYY-MM-DD HH:MM[ (N)].<ext>"; the item is at that path and the
\* directories on the way exist.
AddPlacesItem ==
    (call.op = "add" /\ call.result.ok) =>
        \E n \in 0..MaxAdds :
            LET place == Placement(call.item.timestamp)
                suffix == IF n = 0 THEN "" ELSE " (" \o ToString(n) \o ")"
                file == place.stem \o suffix \o PlacementExtension(call.item.path)
                parts == components(cache.timestamp_root \o place.dir)
            IN /\ call.result.path = cache.timestamp_root \o place.dir \o <<file>>
               /\ lookup(cache, call.result.path) = ItemEntry(call.item)
               /\ \A k \in 1..Len(parts) :
                     lookup_from(cache.root, SubSeq(parts, 1, k)).kind = "Directory"

\* The item of 1960 was added to the cache of the tests, and the item of
\* the next day to a cache that held an item of another day.
AddPlacesItemWitness ==
    /\ call.op = "add" /\ call.result.ok
    /\ \/ /\ call.item = ItemE
          /\ call.result.path
               = <<"/", "base", "1960", "07", "04", "1960-07-04 12:30.gif">>
       \/ /\ call.item = ItemD /\ Len(added) = 2
          /\ call.result.path
               = <<"All", "2000", "01", "02", "2000-01-02 00:00.png">>

\* A text has an empty part: it is empty, or starts or ends with a
\* separator, or has two separators in a row.
HasEmptyPart(text) ==
    \/ text = <<>>
    \/ text[1] = "/" \/ text[Len(text)] = "/"
    \/ \E i \in 1..(Len(text) - 1) : text[i] = "/" /\ text[i + 1] = "/"

\* C28 as claimed: every tag that from_str, root or leaf gives is made of
\* non-empty parts only.
TagPartsNonEmpty ==
    (call.op \in {"from_str", "root", "leaf"} /\ call.result.ok)
        => ~HasEmptyPart(to_string(call.result.tag))

\* C28: a tag that from_str gives has a non-empty leaf without separator
\* and, when it has a parent, a non-empty parent that does not start with a
\* separator; a tag that root or leaf gives has a leaf without separator.
TagEndsNonEmpty ==
    /\ (call.op = "from_str" /\ call.result.ok) =>
          /\ call.result.tag.leaf # <<>>
          /\ \A i \in 1..Len(call.result.tag.leaf) :
                call.result.tag.leaf[i] # "/"
          /\ call.result.tag.parent.some =>
                /\ call.result.tag.parent.text # <<>>
                /\ call.result.tag.parent.text[1] # "/"
    /\ (call.op \in {"root", "leaf"} /\ call.result.ok) =>
          \A i \in 1..Len(call.result.tag.leaf) : call.result.tag.leaf[i] # "/"

\* "a//b" was parsed: the parent is "a/" and the leaf "b".
TagEndsNonEmptyWitness ==
    /\ call.op = "from_str" /\ call.input = <<"a", "/", "/", "b">>
    /\ call.result.ok
    /\ call.result.tag.parent = SomeText(<<"a", "/">>)
    /\ call.result.tag.leaf = <<"b">>

\* C29: from_str fails exactly for the empty string and for strings that
\* start or end with a separator; for every other string the parent is the
\* text before the last separator (absent when there is none), the leaf the
\* text after it, and the tag is displayed as the string.
ParsesAndFormatsBack ==
    (call.op = "from_str") =>
        LET text == call.input
            tag == call.result.tag
            seps == {i \in 1..Len(text) : text[i] = "/"}
        IN /\ call.result.ok
                <=> ~(text = <<>> \/ text[1] = "/" \/ text[Len(text)] = "/")
           /\ call.result.ok =>
                /\ to_string(tag) = text
                /\ seps = {} => (~tag.parent.some /\ tag.leaf = text)
                /\ seps # {} =>
                      \E i \in seps :
                          /\ \A j \in seps : j <= i
                          /\ tag.parent = SomeText(SubSeq(text, 1, i - 1))
                          /\ tag.leaf = SubSeq(text, i + 1, Len(text))

\* "a/b/a" was parsed into the parent "a/b" and the leaf "a".
ParsesAndFormatsBackWitness ==
    /\ call.op = "from_str" /\ call.input = <<"a", "/", "b", "/", "a">>
    /\ call.result.ok
    /\ call.result.tag.parent = SomeText(<<"a", "/", "b">>)
    /\ call.result.tag.leaf = <<"a">>
    /\ to_string(call.result.tag) = call.input

\* C30: name gives "<base>.<ext>" for the index 0 and "<base> (<index>).<ext>"
\* for any other, and for the same base and extension no other index gives
\* the same name.
NameHasIndex ==
    (call.op = "name") =>
        /\ call.result
             = IF call.index = 0
               THEN call.base \o "." \o call.ext
               ELSE call.base \o " (" \o ToString(call.index) \o ")."
                        \o call.ext
        /\ \A j \in 0..MaxAdds :
              j # call.index => name(call.base, call.ext, j) # call.result

\* The three calls of the test of path.rs.
NameHasIndexWitness ==
    /\ call.op = "name"
    /\ \/ call.base = "test1" /\ call.index = 0 /\ call.result = "test1.jpeg"
       \/ call.base = "test2" /\ call.index = 1
            /\ call.result = "test2 (1).jpeg"
       \/ call.base = "test3" /\ call.index = 2 /\ call.ext = "png"
            /\ call.result = "test3 (2).png"
    /\ call.index > 0

\* The paths of the entries below an entry, the entry's own included.
RECURSIVE paths(_, _)
paths(entry, dir) ==
    IF entry.kind = "Directory"
    THEN {dir} \cup UNION {paths(entry.tree[n], Append(dir, n)) :
                               n \in DOMAIN entry.tree}
    ELSE {dir}

\* The entry reached from an entry through names alone.
RECURSIVE Descend(_, _)
Descend(entry, names) ==
    IF names = <<>> THEN entry
    ELSE IF entry.kind = "Directory" /\ Head(names) \in DOMAIN entry.tree
         THEN Descend(entry.tree[Head(names)], Tail(names))
         ELSE None

IsName(part) == part \notin {"/", ".", ".."}

\* The paths looked up: for every entry of the tree its path from the root,
\* the same with root and current-directory components, with a name or a
\* parent component after it, and with a parent component inside it.
LookupPaths(c) ==
    UNION {{<<"/">> \o q,
            <<".">> \o q,
            <<"/", ".">> \o q,
            <<"/">> \o q \o <<"All">>,
            <<"/">> \o q \o <<"..">>,
            <<"/">> \o q \o <<"..", "All">>,
            <<"/", "..">> \o q} : q \in paths(c.root, <<>>)}

\* C21: lookup steps over root-directory and current-directory components,
\* descends through directories only, gives nothing for a path with a parent
\* component or with an item or link before its last name, and gives the
\* root directory for "/".
LookupSkipsAndDescends ==
    /\ lookup(cache, <<"/">>) = cache.root
    /\ \A q \in LookupPaths(cache) :
          lookup(cache, q)
            = IF \E k \in 1..Len(q) : q[k] = ".." THEN None
              ELSE Descend(cache.root, SelectSeq(q, IsName))

\* The cache holds an item and a link; each is found through a path with
\* root and current-directory components, and nothing is found below it.
LookupSkipsAndDescendsWitness ==
    \E q, r \in paths(cache.root, <<>>) :
        /\ lookup(cache, <<"/", ".">> \o q).kind = "Item"
        /\ lookup(cache, <<"/", ".">> \o r).kind = "Link"
        /\ lookup(cache, <<"/">> \o q \o <<"All">>) = None
        /\ lookup(cache, <<"/">> \o q \o <<"..">>) = None

-----------------------------------------------------------------------------
(* The claims about the callbacks, checked under Spec and SpecFiles.       *)

\* C3: every cache read made by a callback sees a complete tree, the one the
\* last populate that ended left (the empty tree before the first), never
\* the cleared or a partially populated tree of a populate in progress.
PopulateIsAtomic ==
    \A t \in Workers : thread[t].looked => thread[t].snapshot

\* A callback has read a populated tree, and another populate has since
\* cleared the tree and has items left to add.
PopulateIsAtomicWitness ==
    \E t, u \in Workers :
        /\ thread[t].pc = "done" /\ thread[t].looked /\ thread[t].snapshot
        /\ thread[t].status = "ok"
        /\ thread[u].pc = "add" /\ thread[u].pending # <<>>
        /\ cache.root # complete

NotifyDecidesStep(t) ==
    (thread[t].pc = "stat" /\ thread'[t].pc # "stat" /\ rootReadable) =>
        /\ (thread'[t].pc = "populate")
              <=> (~last_seen.some \/ last_seen.t < rootMtime)
        /\ thread'[t].pc = "populate" => thread'[t].stamp = rootMtime
        /\ thread'[t].pc # "populate" => thread'[t].pc = "cache"
        /\ cache' = cache /\ last_seen' = last_seen

\* The step in which notify of thread t returns after populate: the stored
\* time becomes the time m the call read.
NotifyReturnsStep(t) ==
    (thread[t].pc \in {"populate", "clear", "add"} /\ thread'[t].pc = "cache")
        => last_seen' = SomeTime(thread[t].stamp)

\* C12: notify with a readable modification time m of the root runs populate
\* exactly when the stored time is absent or before m, and the call that ran
\* populate returns with m stored; when the stored time is m or later, neither
\* the cache nor the stored time changes.
NotifyDecides ==
    [][\A t \in Workers : NotifyDecidesStep(t) /\ NotifyReturnsStep(t)]_vars

\* A second populate has ended and stored the time 2 it read, and a later
\* notify read the same time and left cache and stored time alone.
NotifyDecidesWitness ==
    /\ notifies[1].seen /\ notifies[1].scanned /\ notifies[1].mtime = 2
    /\ notifies[2].readable /\ notifies[2].mtime = 2 /\ ~notifies[2].scanned
    /\ last_seen = SomeTime(2)
    /\ cache.root = complete

\* C13: when the modification time of the root cannot be read, notify does
\* nothing: populate is not run, and the cache, the cache's lock and the
\* stored time are as before.
UnreadableNotifyIsNoOp ==
    [][\A t \in Workers :
          (thread[t].pc = "stat" /\ thread'[t].pc # "stat" /\ ~rootReadable) =>
              /\ thread'[t].pc = "cache"
              /\ cache' = cache /\ last_seen' = last_seen
              /\ cacheLock' = cacheLock /\ complete' = complete]_vars

\* notify could not read the time while no time was stored, so that a
\* readable time would have started populate; nothing was stored.
UnreadableNotifyIsNoOpWitness ==
    /\ notifies[2].seen /\ ~notifies[2].readable /\ ~notifies[2].scanned
    /\ last_seen = NoTime
    /\ cache.root = Directory(EmptyTree)
    /\ \E t \in Workers : thread[t].pc = "cache" /\ thread[t].notified

\* C34: every add of the collection calls item_added once, with the item and
\* before the item is among the items, and appends the item; remove_by_path
\* removes and returns the first item with the path and calls item_removed
\* once, with that item; with no such item it returns none, calls nothing
\* and leaves the items as they are.
MonitorMirrorsCollection ==
    [][/\ call'.op = "collection_add" =>
            /\ monitor'.added
                 = Append(monitor.added, [item |-> call'.item,
                                          seen |-> collection.items])
            /\ monitor'.removed = monitor.removed
            /\ collection'.items = Append(collection.items, call'.item)
       /\ call'.op = "remove_by_path" =>
            IF \E i \in 1..Len(collection.items) :
                   collection.items[i].path = call'.path
            THEN \E i \in 1..Len(collection.items) :
                   /\ collection.items[i].path = call'.path
                   /\ \A j \in 1..(i - 1) :
                         collection.items[j].path # call'.path
                   /\ call'.result = [some |-> TRUE,
                                      item |-> collection.items[i]]
                   /\ Len(monitor'.removed) = Len(monitor.removed) + 1
                   /\ SubSeq(monitor'.removed, 1, Len(monitor.removed))
                        = monitor.removed
                   /\ monitor'.removed[Len(monitor'.removed)].item
                        = collection.items[i]
                   /\ monitor'.added = monitor.added
                   /\ collection'.items
                        = [k \in 1..(Len(collection.items) - 1) |->
                             IF k < i THEN collection.items[k]
                             ELSE collection.items[k + 1]]
            ELSE /\ call'.result = [some |-> FALSE]
                 /\ monitor' = monitor
                 /\ collection' = collection]_vars

\* The collection held two items of the path c.jpg, and remove_by_path has
\* removed the first of them after both were added.
MonitorMirrorsCollectionWitness ==
    /\ call.op = "remove_by_path" /\ call.path = "c.jpg"
    /\ call.result = SomeItem(ItemC2)
    /\ collection.items = <<ItemC>>
    /\ Len(monitor.added) = 2 /\ Len(monitor.removed) = 1
    /\ monitor.added[2].seen = <<ItemC2>>

LockOrder ==
    \A t \in Workers :
        /\ thread[t].pc \in {"populate", "clear", "add"} => sourceLock.writer = t
        /\ cacheLock.writer = t =>
              sourceLock.writer = t /\ thread[t].pc \in {"clear", "add"}
        /\ t \in cacheLock.readers =>
              /\ thread[t].pc = "lookup"
              /\ sourceLock.writer # t /\ cacheLock.writer # t

Taxonomy ==
    {<<"NotFound", "ENOENT">>, <<"PermissionDenied", "EACCES">>,
     <<"ConnectionRefused", "ECONNREFUSED">>,
     <<"ConnectionReset", "ECONNRESET">>,
     <<"ConnectionAborted", "ECONNABORTED">>, <<"NotConnected", "ENOTCONN">>,
     <<"AddrInUse", "EADDRINUSE">>, <<"AddrNotAvailable", "EADDRNOTAVAIL">>,
     <<"BrokenPipe", "EPIPE">>, <<"AlreadyExists", "EEXIST">>,
     <<"WouldBlock", "EAGAIN">>, <<"InvalidInput", "EINVAL">>,
     <<"InvalidData", "EINVAL">>, <<"TimedOut", "ETIMEDOUT">>,
     <<"Interrupted", "EINTR">>}

\* C31: map_error gives every kind of I/O error the table lists the errno of
\* the table, and every other kind EIO.
MapErrorFollowsTaxonomy ==
    call.op = "map_error" =>
        IF \E row \in Taxonomy : row[1] = call.kind
        THEN <<call.kind, call.result>> \in Taxonomy
        ELSE call.result = "EIO"

\* map_error has mapped invalid data, the second kind that gives EINVAL.
MapErrorFollowsTaxonomyWitness ==
    /\ call.op = "map_error" /\ call.kind = "InvalidData"
    /\ call.result = "EINVAL"

\* A deeper part of a location is given without all the shallower ones.
HasGap(y, m, d, loc) ==
    \/ m.some /\ ~y.some
    \/ d.some /\ ~(y.some /\ m.some)
    \/ loc.some /\ ~(y.some /\ m.some /\ d.some)

\* The day an item locator names is the day of the path it stands in.
SameDay(y, m, d, loc) ==
    /\ loc.timestamp.year = y
    /\ loc.timestamp.month = m
    /\ loc.timestamp.day = d

\* C36: Location::new gives a location only for a prefix without gaps (a
\* year, a year and month, a year, month and day, or these with an item), and
\* none when a deeper part comes without all the shallower ones; with an
\* item it gives none unless the year, month and day in the name of the item
\* are those of the path, and a path whose item name names another day is
\* located nowhere.
LocationIsGapFreePrefix ==
    /\ call.op = "location_new" =>
          /\ HasGap(call.year, call.month, call.day, call.item) =>
                ~call.result.some
          /\ (call.item.some /\ ~HasGap(call.year, call.month, call.day, call.item)) =>
                (call.result.some <=>
                    SameDay(call.year.value, call.month.value, call.day.value,
                            call.item.value))
          /\ call.result.some =>
                call.result.value.kind =
                    CASE call.item.some -> "Item" [] call.day.some -> "Day"
                      [] call.month.some -> "Month" [] call.year.some -> "Year"
                      [] OTHER -> "Root"
    /\ (/\ call.op = "try_from" /\ Len(call.path) >= 4
        /\ \/ ~item_locator_from_str(call.path[4]).ok
           \/ ~SameDay(parse_i32(call.path[1]).value,
                       parse_i32(call.path[2]).value,
                       parse_i32(call.path[3]).value,
                       item_locator_from_str(call.path[4]).value))
          => ~call.result.some

\* Location::new was given a year, a month, a day and an item of another day,
\* and gave none.
LocationIsGapFreePrefixWitness ==
    /\ call.op = "location_new"
    /\ call.year.some /\ call.month.some /\ call.day.some /\ call.item.some
    /\ call.day.value # call.item.value.timestamp.day
    /\ ~call.result.some

\* The items of the collection that are of the day a path names.
ItemsOfDay(path) ==
    SelectSeq(collection.items, LAMBDA i :
        /\ ToString(i.timestamp.year) = path[1]
        /\ pad2(i.timestamp.month) = path[2]
        /\ pad2(i.timestamp.day) = path[3])

\* C37: every name TimestampsLocator lists for a day directory is located:
\* locate on the path of the day and the name gives an Item entry for an
\* item of that day.
ListedNamesAreLocated ==
    call.op = "locate_listed" =>
        /\ call.result.some
        /\ call.result.value.kind = "Item"
        /\ call.result.value.item \in range(ItemsOfDay(call.path))

\* The names an item of the base and the extension has when there are k of
\* them: the indices 0 to k - 1.
IndexedNames(base, ext, k) ==
    {IF j = 0 THEN base \o "." \o ext
     ELSE base \o " (" \o ToString(j) \o ")." \o ext : j \in 0..(k - 1)}

\* The base and the extension of the name of an item.
NameOf(i) ==
    <<format_timestamp(i.timestamp), mime_file_extension(i.media_type)>>

\* C38: the listing of a day directory has one name for each item of the
\* day: k items of one base name and extension are listed under the indices
\* 0 to k - 1.
DayListsEveryItem ==
    (call.op = "timestamps_locate" /\ Len(call.path) = 3 /\ call.result.some) =>
        With(ItemsOfDay(call.path), LAMBDA day_items :
          /\ Cardinality(call.result.value.tree) = Len(day_items)
          /\ call.result.value.tree =
                UNION {IndexedNames(n[1], n[2],
                           Len(SelectSeq(day_items, LAMBDA i : NameOf(i) = n))) :
                       n \in {NameOf(i) : i \in range(day_items)}})

\* The positions of the normal components of a path.
NormalAt(path) == {i \in 1..Len(path) : Normal(path[i])}

\* The position of the first normal component of a path that has one.
FirstNormal(path) == CHOOSE i \in NormalAt(path) : \A j \in NormalAt(path) : i <= j

\* C35: DispatchLocator::locate skips the components before the first normal
\* one; when the path has no normal component it gives a directory that
\* lists the registered names and nothing else; otherwise it gives none when
\* the first normal component is not a registered name, and else what the
\* locator registered under that name gives for the components after it.
DispatchSkipsAndDispatches ==
    call.op = "dispatch_locate" =>
        IF NormalAt(call.path) = {}
        THEN /\ call.result.some
             /\ call.result.value.kind = "Directory"
             /\ call.result.value.tree = {"All", "Numbers"}
        ELSE With(FirstNormal(call.path), LAMBDA at :
               CASE call.path[at] = "All" ->
                      call.result = timestamps_locate(collection.items,
                          SubSeq(call.path, at + 1, Len(call.path)))
                 [] call.path[at] = "Numbers" ->
                      call.result = dummy_locate(collection.items,
                          SubSeq(call.path, at + 1, Len(call.path)))
                 [] OTHER -> ~call.result.some)

\* The dispatcher was asked for a path that starts with a component that is
\* not normal, and the locator registered under the first normal component
\* found a directory for the components after it.
DispatchSkipsAndDispatchesWitness ==
    /\ call.op = "dispatch_locate"
    /\ Len(call.path) > 2 /\ ~Normal(call.path[1])
    /\ call.result.some /\ call.result.value.tree # {}
    /\ call.result.value.tree # {"All", "Numbers"}

\* C39: when add rejects an item the tree of the cache is as it was before
\* the call: no directory is created on the way to the rejected place.
RejectedAddLeavesTree ==
    [][(call'.op = "add" /\ ~call'.result.ok) =>
          cache'.root = cache.root]_vars

\* The item a record of the tags source gives for a path: the time and the
\* tags of the record, or for a record of missing metadata the modification
\* time of the file and no tags.
RecordItem(record, path) ==
    [path |-> path,
     timestamp |-> IF record.kind = "Present" THEN record.timestamp
                   ELSE exif[path].modified,
     tags |-> IF record.kind = "Present" THEN record.tags ELSE {},
     media_type |-> guess_mime_type(path)]

PopulateFails(t) ==
    /\ thread[t].pc = "populate" /\ cacheLock.poisoned
    /\ thread'[t].pc # "populate"

\* The step in which the populate of thread t returns after it replaced the
\* items of the cache.
PopulateReplaced(t) ==
    /\ thread[t].pc = "add" /\ thread[t].pending = <<>>
    /\ thread'[t].pc = "cache"

LookupStep(t) == thread[t].pc = "lookup" /\ thread'[t].pc = "done"

\* The entry a callback's path names in the tree, none when there is none.
Named(t) == Descend(cache.root, SelectSeq(thread[t].path, IsName))

\* C22: opendir and readdir reply ENOENT when the path names nothing in the
\* cache and ENOTDIR when it names an item or a link; they succeed on a
\* directory only, and opendir then gives the handle 0.
DirectoryCallbacks ==
    [][\A t \in Workers :
          (LookupStep(t) /\ thread[t].op \in {"opendir", "readdir"}) =>
              /\ Named(t) = None =>
                    thread'[t].status = "err" /\ thread'[t].errno = "ENOENT"
              /\ Named(t).kind \in {"Item", "Link"} =>
                    thread'[t].status = "err" /\ thread'[t].errno = "ENOTDIR"
              /\ Named(t).kind = "Directory" =>
                    thread'[t].status = "ok" /\ thread'[t].fh = 0]_vars

\* readdir of a link has replied ENOTDIR.
DirectoryCallbacksWitness ==
    \E t \in Workers :
        /\ thread[t].pc = "done" /\ thread[t].op = "readdir"
        /\ thread[t].kindv = "Link"
        /\ thread[t].status = "err" /\ thread[t].errno = "ENOTDIR"

\* C23: readdir of a directory gives one entry for each child, under the name
\* the child has in the cache and with the kind of its shape, and no other.
ReaddirListsChildren ==
    [][\A t \in Workers :
          (LookupStep(t) /\ thread[t].op = "readdir"
             /\ Named(t).kind = "Directory") =>
              /\ Len(thread'[t].entries) = Cardinality(DOMAIN Named(t).tree)
              /\ \A n \in DOMAIN Named(t).tree :
                    \E i \in 1..Len(thread'[t].entries) :
                        /\ thread'[t].entries[i].name = n
                        /\ thread'[t].entries[i].kind
                             = CASE Named(t).tree[n].kind = "Directory"
                                      -> "Directory"
                                 [] Named(t).tree[n].kind = "Item"
                                      -> "RegularFile"
                                 [] Named(t).tree[n].kind = "Link" -> "Symlink"
                        /\ \A j \in 1..Len(thread'[t].entries) :
                              thread'[t].entries[j].name = n => j = i]_vars

\* readdir of the day directory of two items has given two regular files.
ReaddirListsChildrenWitness ==
    \E t \in Workers :
        /\ thread[t].pc = "done" /\ thread[t].op = "readdir"
        /\ thread[t].status = "ok"
        /\ thread[t].path = <<"/", "All", "2000", "01", "01">>
        /\ Len(thread[t].entries) = 2
        /\ \A i \in 1..2 : thread[t].entries[i].kind = "RegularFile"
        /\ {thread[t].entries[i].name : i \in 1..2}
             = {"2000-01-01 00:00.jpeg", "2000-01-01 00:00 (1).jpeg"}

\* C24: readlink and open reply ENOENT when the path names nothing; readlink
\* succeeds on a link, with its target, and open on an item whose source
\* file can be opened; on an entry of any other shape they reply EINVAL.
ReadlinkAndOpen ==
    [][\A t \in Workers :
          (LookupStep(t) /\ thread[t].op \in {"readlink", "open"}) =>
              /\ Named(t) = None =>
                    thread'[t].status = "err" /\ thread'[t].errno = "ENOENT"
              /\ (thread[t].op = "readlink" /\ Named(t).kind = "Link") =>
                    /\ thread'[t].status = "ok"
                    /\ thread'[t].target = Named(t).target
              /\ (thread[t].op = "readlink"
                    /\ Named(t).kind \in {"Directory", "Item"}) =>
                    thread'[t].status = "err" /\ thread'[t].errno = "EINVAL"
              /\ (thread[t].op = "open" /\ Named(t).kind = "Item") =>
                    IF Named(t).item.path \in disk
                    THEN /\ thread'[t].status = "ok"
                         /\ thread'[t].fh \in handles' \ handles
                    ELSE /\ thread'[t].status = "err"
                         /\ thread'[t].errno = "ENOENT"
              /\ (thread[t].op = "open"
                    /\ Named(t).kind \in {"Directory", "Link"}) =>
                    /\ thread'[t].status = "err" /\ thread'[t].errno = "EINVAL"
                    /\ handles' = handles]_vars

\* open of a link has replied EINVAL.
ReadlinkAndOpenWitness ==
    \E t \in Workers :
        /\ thread[t].pc = "done" /\ thread[t].op = "open"
        /\ thread[t].kindv = "Link"
        /\ thread[t].status = "err" /\ thread[t].errno = "EINVAL"

\* C25: getattr gives a directory the kind directory, mode 0o555 and size 0,
\* an item the kind regular file, mode 0o444 and the length of its source
\* file, or ENOENT when that file is gone, and a link the kind symlink, mode
\* 0o555 and size 0; the four times are the timestamp of the entry, and user
\* and group are those of the request.
GetattrProjects ==
    [][\A t \in Workers :
          (LookupStep(t) /\ thread[t].op = "getattr" /\ Named(t) # None) =>
              /\ Named(t).kind = "Directory" =>
                    /\ thread'[t].status = "ok"
                    /\ thread'[t].attr.kind = "Directory"
                    /\ thread'[t].attr.perm = 5 * 64 + 5 * 8 + 5
                    /\ thread'[t].attr.size = 0
              /\ Named(t).kind = "Item" =>
                    IF Named(t).item.path \in disk
                    THEN /\ thread'[t].status = "ok"
                         /\ thread'[t].attr.kind = "RegularFile"
                         /\ thread'[t].attr.perm = 4 * 64 + 4 * 8 + 4
                         /\ thread'[t].attr.size
                              = Len(Content(Named(t).item.path))
                    ELSE /\ thread'[t].status = "err"
                         /\ thread'[t].errno = "ENOENT"
              /\ Named(t).kind = "Link" =>
                    /\ thread'[t].status = "ok"
                    /\ thread'[t].attr.kind = "Symlink"
                    /\ thread'[t].attr.perm = 5 * 64 + 5 * 8 + 5
                    /\ thread'[t].attr.size = 0
              /\ thread'[t].status = "ok" =>
                    /\ thread'[t].attr.atime = timestamp(Named(t))
                    /\ thread'[t].attr.mtime = timestamp(Named(t))
                    /\ thread'[t].attr.ctime = timestamp(Named(t))
                    /\ thread'[t].attr.crtime = timestamp(Named(t))
                    /\ thread'[t].attr.uid = thread[t].req.uid
                    /\ thread'[t].attr.gid = thread[t].req.gid]_vars

\* getattr by the user 1000 of an item whose source file has three bytes.
GetattrProjectsWitness ==
    \E t \in Workers :
        /\ thread[t].pc = "done" /\ thread[t].op = "getattr"
        /\ thread[t].kindv = "Item" /\ thread[t].status = "ok"
        /\ thread[t].attr.size = 3 /\ thread[t].attr.uid = 1000
        /\ thread[t].attr.mtime = to_timespec(T2000a)

\* C26 as claimed: a read that succeeds returns the bytes of the source file
\* from the offset asked for, at most as many as asked for and fewer only at
\* the end of the file.
ReadReturnsBytesAtOffset ==
    \A t \in Workers :
        (thread[t].pc = "done" /\ thread[t].op = "read"
           /\ thread[t].status = "ok" /\ thread[t].fh \in DOMAIN fds) =>
            LET content == Content(fds[thread[t].fh].file)
                from == thread[t].offset
                to == IF from + thread[t].size < Len(content)
                      THEN from + thread[t].size ELSE Len(content)
            IN /\ Len(thread[t].data) <= thread[t].size
               /\ thread[t].data
                    = IF from >= Len(content) THEN <<>>
                      ELSE SubSeq(content, from + 1, to)

\* The source paths of the items below an entry.
ItemPaths(entry) ==
    {Descend(entry, q).item.path :
        q \in {r \in paths(entry, <<>>) : Descend(entry, r).kind = "Item"}}

\* C27: populate walks the files of the source root whose media type is an
\* image, each add of populate adds the item of the next file of the walk,
\* and so no item of the cache ever comes from a file of another type.
OnlyImagesInCache ==
    [][/\ \A t \in Workers :
            (thread[t].pc = "clear" /\ thread'[t].pc = "add") =>
                /\ {thread'[t].pending[i] : i \in 1..Len(thread'[t].pending)}
                     = disk \cap {"a.jpg", "b.jpg"}
                /\ Len(thread'[t].pending)
                     = Cardinality(disk \cap {"a.jpg", "b.jpg"})
       /\ \A t \in Workers :
            (thread[t].pc = "add" /\ thread[t].pending # <<>>) =>
                ItemPaths(cache'.root)
                    \subseteq ItemPaths(cache.root) \cup {Head(thread[t].pending)}
       /\ ItemPaths(cache'.root) \subseteq {"a.jpg", "b.jpg"}]_vars

\* A populate of a source root that holds two images and a text file has
\* ended, and the items of the cache are those of the two images.
OnlyImagesInCacheWitness ==
    /\ disk = {"a.jpg", "b.jpg", "notes.txt"}
    /\ cache.root = complete
    /\ last_seen = SomeTime(rootMtime)
    /\ ItemPaths(cache.root) = {"a.jpg", "b.jpg"}

\* C6 as claimed: of two consecutive calls of notify with the same
\* modification time of the root, the second runs no populate.
SecondNotifyScansNothing ==
    (notifies[1].seen /\ notifies[1].mtime = notifies[2].mtime)
        => ~notifies[2].scanned

\* C6: of two consecutive calls of notify with the same modification time of
\* the root, the first of which could read that time, the second runs no
\* populate.
SecondNotifyAfterReadScansNothing ==
    (notifies[1].seen /\ notifies[1].readable
       /\ notifies[1].mtime = notifies[2].mtime)
        => ~notifies[2].scanned

\* The first of two calls populated, the second read the same time and did not.
SecondNotifyWitness ==
    /\ notifies[1].seen /\ notifies[1].readable /\ notifies[1].scanned
    /\ notifies[2].readable /\ notifies[1].mtime = notifies[2].mtime
    /\ ~notifies[2].scanned

\* C7: the descriptors open are the handles issued by open and not yet
\* released: a read leaves its descriptor open, whether it succeeds or
\* fails, and release closes it.
DescriptorOpenUntilRelease ==
    /\ DOMAIN fds = handles
    /\ \A t \in Workers :
          thread[t].op = "read" => thread[t].fh \in DOMAIN fds

\* One read on a handle has failed and another has succeeded after it, and
\* the descriptor is still open.
DescriptorOpenUntilReleaseWitness ==
    \E t, u \in Workers :
        /\ thread[t].pc = "done" /\ thread[t].op = "read"
        /\ thread[t].status = "err"
        /\ thread[u].pc = "done" /\ thread[u].op = "read"
        /\ thread[u].status = "ok" /\ thread[u].fh = thread[t].fh
        /\ thread[t].fh \in DOMAIN fds

\* C8 as claimed: every read that succeeds returns the bytes of the file
\* from the offset it asked for.
ReadsAreIndependent ==
    \A t \in Workers :
        (thread[t].pc = "done" /\ thread[t].op = "read"
           /\ thread[t].status = "ok" /\ thread[t].fh \in DOMAIN fds)
        => thread[t].data =
              bytes(fds[thread[t].fh].file, thread[t].offset, thread[t].size)

PoisonedLockStep(t) ==
    \/ thread[t].pc = "notify" /\ sourceLock.poisoned
    \/ thread[t].pc = "cache" /\ cacheLock.poisoned

\* C10: a callback that finds the source lock poisoned at notify!, or the
\* cache lock poisoned at cache!, replies EDEADLK in that step, without a
\* panic and without a lookup in or a change of the cache.
PoisonedLockIsDeadlock ==
    [][\A t \in Workers :
          (PoisonedLockStep(t) /\ thread'[t] # thread[t])
          => /\ thread'[t].pc = "done"
             /\ thread'[t].status = "err"
             /\ thread'[t].errno = "EDEADLK"
             /\ ~thread'[t].looked
             /\ cache' = cache
             /\ cacheLock' = cacheLock
             /\ sourceLock' = sourceLock]_vars

\* A callback has run its notify and then found the cache lock poisoned.
PoisonedLockIsDeadlockWitness ==
    \E t \in Workers :
        /\ thread[t].pc = "done" /\ thread[t].poisoned /\ thread[t].notified
        /\ thread[t].errno = "EDEADLK"
        /\ cacheLock.poisoned

====
